---------------------------- MODULE Spec2Model ----------------------------
(***************************************************************************)
(* Model of the markdown-and-math rendering pipeline of the study-aid      *)
(* application.                                                            *)
(*                                                                         *)
(* Two MarkdownDisplay components exist in the source:                     *)
(*   - src/unnamed/part_001: processContent (fence stripping, masking of   *)
(*     math spans by MATHBLOCK<n>END / MATHINLINE<n>END tokens,            *)
(*     marked.parse, unmasking);                                           *)
(*   - src/components/MarkdownDisplay.tsx: prepareContent (fence and       *)
(*     delimiter rewriting) followed by formatText (regex markdown).       *)
(*                                                                         *)
(* A text is a sequence of one-character strings.  The HTML tags that      *)
(* formatText and marked insert are kept as single elements of the         *)
(* sequence: no regular expression of the pipeline matches a character of  *)
(* a tag, except that "." and [\s\S] skip over it.                         *)
(*                                                                         *)
(* The App component (src/services/geminiService.ts, from line 351) owns   *)
(* the collections of records; DefinitionsView (src/unnamed/part_004) and  *)
(* TheoremsView (src/views/TheoremsView.tsx) add records, start the AI     *)
(* call that enriches them and merge its outcome by id.  The strings of    *)
(* the application state are TLA+ strings.                                 *)
(***************************************************************************)
EXTENDS Integers, Sequences, FiniteSets, TLC

VARIABLES
    pc,          \* position inside the function being executed
    text,        \* the argument text of processContent / prepareContent
    hasMarked,   \* whether (window as any).marked is present
    clean,       \* processContent: clean
    mathBlocks,  \* processContent: mathBlocks
    html,        \* processContent: html
    cleaned,     \* prepareContent: cleaned
    formatted,   \* formatText: formatted
    now,            \* the value Date.now() returns
    activeSection,  \* App: activeSection
    definitions,    \* App: definitions
    theorems,       \* App: theorems
    problems,       \* App: problems
    editingDef,     \* App: editingDef, <<>> when null, else <<the record>>
    view,           \* the state of the view that renderSection mounts
    calls,          \* the AI calls that are awaited, oldest first
    targetItemId,   \* App: targetItemId
    summaries       \* App: summaries

pipeVars == <<pc, text, hasMarked, clean, mathBlocks, html, cleaned, formatted>>

appVars ==
    <<now, activeSection, definitions, theorems, problems, editingDef, view,
      calls, targetItemId, summaries>>

vars == <<pc, text, hasMarked, clean, mathBlocks, html, cleaned, formatted,
          now, activeSection, definitions, theorems, problems, editingDef, view,
          calls, targetItemId, summaries>>

-----------------------------------------------------------------------------
(* Bounds of the model *)

\* number of pieces an input of the masking pipeline is built from
MaxMaskPieces == 5
\* number of pieces an input with code fences is built from
MaxFencePieces == 4
\* number of pieces an input of formatText is built from
MaxFormatPieces == 5
\* number of pieces an input with alternate delimiters is built from
MaxDelimPieces == 3
\* number of records the user adds
MaxRecords == 2
\* last value of the millisecond clock
MaxClock == 2
\* number of fields of the records that the user has edited
MaxEdits == 2
\* number of records the callbacks of App add to a collection
MaxItems == 2
\* number of white-space characters around a fenced AI response
MaxPad == 1
\* number of pieces of an input of cleanMathString
MaxMathPieces == 6

-----------------------------------------------------------------------------
(* The state the App component starts in *)

\* null and undefined of the program
NULL == "null"
UNDEFINED == "undefined"

\* an array without images; the images themselves are not modelled
NO_IMAGES == "[]"

\* enum Section
DEFINITIONS == "definitions"
THEOREMS == "theorems"
EXERCISES == "exercises"
CHAPTER_SUMMARY == "chapter_summary"
REVIEW == "review"
SEARCH == "search"

\* the useState initial values of DefinitionsView
DefinitionsViewInit ==
    [term |-> "", content |-> "", subject |-> "Analysis",
     chapter |-> "Sequences", activeId |-> NULL, isGenerating |-> FALSE,
     isEditing |-> FALSE]

\* the useState initial values of TheoremsView
TheoremsViewInit ==
    [name |-> "", content |-> "", subject |-> "Analysis",
     chapter |-> "Sequences", activeId |-> NULL, previewUrl |-> NULL,
     isAnalyzing |-> FALSE, isEditing |-> FALSE]

\* the useState initial values of ExercisesView; the images and
\* learningConcept are not modelled
ExercisesViewInit ==
    [mode |-> "ai", subject |-> "Analysis", chapter |-> "Sequences",
     difficulty |-> "UCL 2:1", specificTopic |-> "", userProblemText |-> "",
     currentUserAnswer |-> "", showStruggleForm |-> FALSE, struggleNote |-> "",
     currentProblemId |-> NULL, isLoading |-> FALSE, visibleStepIndex |-> -1]

\* the useState initial values of ReviewView; flippedCards is not modelled
ReviewViewInit == [activeTab |-> "definitions"]

\* the useState initial values of ChapterSummaryView
ChapterSummaryViewInit ==
    [subject |-> "Analysis", chapter |-> "Sequences", isGenerating |-> FALSE]

\* the state of the view that renderSection mounts for a section when
\* targetItemId is null; SearchView is not modelled
MountView(section) ==
    IF section = DEFINITIONS THEN DefinitionsViewInit
    ELSE IF section = THEOREMS THEN TheoremsViewInit
    ELSE IF section = EXERCISES THEN ExercisesViewInit
    ELSE IF section = REVIEW THEN ReviewViewInit
    ELSE IF section = CHAPTER_SUMMARY THEN ChapterSummaryViewInit
    ELSE [mounted |-> section]

\* the useState initial values of App, at the first value of the clock
AppStart ==
    /\ now = 1
    /\ activeSection = DEFINITIONS
    /\ definitions = <<>>
    /\ theorems = <<>>
    /\ problems = <<>>
    /\ editingDef = <<>>
    /\ view = MountView(DEFINITIONS)
    /\ calls = <<>>
    /\ targetItemId = NULL
    /\ summaries = <<>>

\* no text is being rendered
PipeIdle ==
    /\ pc = "idle"
    /\ text = <<>>
    /\ hasMarked = FALSE
    /\ clean = <<>>
    /\ mathBlocks = <<>>
    /\ html = <<>>
    /\ cleaned = <<>>
    /\ formatted = <<>>

-----------------------------------------------------------------------------
(* Characters and words *)

\* the backtick character (a backtick cannot be written in a TLA+ string)
BT == "BACKTICK"
DOLLAR == "$"
NL == "\n"
SP == " "
BSL == "\\"

UpperChars == <<"A","B","C","D","E","F","G","H","I","J","K","L","M",
                "N","O","P","Q","R","S","T","U","V","W","X","Y","Z">>
LowerChars == <<"a","b","c","d","e","f","g","h","i","j","k","l","m",
                "n","o","p","q","r","s","t","u","v","w","x","y","z">>

\* the case folding of the i flag
Lower(c) ==
    IF \E k \in 1..26 : UpperChars[k] = c
    THEN LowerChars[CHOOSE k \in 1..26 : UpperChars[k] = c]
    ELSE c

DigitChars == <<"0","1","2","3","4","5","6","7","8","9">>
\* \d
IsDigit(c) == \E k \in 1..10 : DigitChars[k] = c
DigitVal(c) == (CHOOSE k \in 1..10 : DigitChars[k] = c) - 1
\* \s (the white space of the alphabet of the model)
IsSpace(c) == c \in {SP, NL, "\t", "\r"}

FENCE == <<BT, BT, BT>>
W_latex == <<"l","a","t","e","x">>
W_markdown == <<"m","a","r","k","d","o","w","n">>
W_math == <<"m","a","t","h">>
W_json == <<"j","s","o","n">>
W_python == <<"p","y","t","h","o","n">>
W_MATHBLOCK == <<"M","A","T","H","B","L","O","C","K">>
W_MATHINLINE == <<"M","A","T","H","I","N","L","I","N","E">>
W_END == <<"E","N","D">>
\* String(undefined)
W_undefined == <<"u","n","d","e","f","i","n","e","d">>

-----------------------------------------------------------------------------
(* String helpers *)

Min(S) == CHOOSE k \in S : \A j \in S : k <= j

\* s.startsWith(w, i - 1)
StartsAt(s, i, w) ==
    /\ i >= 1
    /\ i + Len(w) - 1 <= Len(s)
    /\ \A j \in 1..Len(w) : s[i + j - 1] = w[j]

\* the same under the i flag; w is in lower case
StartsAtCI(s, i, w) ==
    /\ i >= 1
    /\ i + Len(w) - 1 <= Len(s)
    /\ \A j \in 1..Len(w) : Lower(s[i + j - 1]) = w[j]

\* least k >= i at which w occurs in s, 0 if there is none
IndexOfFrom(s, w, i) ==
    LET cands == {k \in i..(Len(s) - Len(w) + 1) : StartsAt(s, k, w)}
    IN  IF cands = {} THEN 0 ELSE Min(cands)

\* s.includes(c)
Includes(s, c) == \E k \in 1..Len(s) : s[k] = c

Count(s, c) == Cardinality({k \in 1..Len(s) : s[k] = c})

RECURSIVE Concat(_)
Concat(ss) == IF ss = <<>> THEN <<>> ELSE Head(ss) \o Concat(Tail(ss))

RECURSIVE NatToStr(_)
\* String(n) for n >= 0
NatToStr(n) ==
    IF n < 10 THEN <<DigitChars[n + 1]>>
    ELSE NatToStr(n \div 10) \o <<DigitChars[(n % 10) + 1]>>

RECURSIVE ParseInt(_)
\* parseInt(ds) of a non-empty run of digits
ParseInt(ds) ==
    IF Len(ds) = 0 THEN 0
    ELSE 10 * ParseInt(SubSeq(ds, 1, Len(ds) - 1)) + DigitVal(ds[Len(ds)])

NoMatch == [ok |-> FALSE, from |-> 0, to |-> 0, g |-> <<>>]
Match(i, j, grp) == [ok |-> TRUE, from |-> i, to |-> j, g |-> grp]


-----------------------------------------------------------------------------
(* The regular expressions of the pipeline.  Each matcher answers for one   *)
(* start position i: whether the expression matches there, where the match  *)
(* ends and what group 1 captured.                                          *)

\* length of the run of white space of s that starts at i
RECURSIVE SpaceRun(_, _)
SpaceRun(s, i) ==
    IF i <= Len(s) /\ IsSpace(s[i]) THEN 1 + SpaceRun(s, i + 1) ELSE 0

\* length of the run of white space of s that ends at i and does not reach
\* below lo
RECURSIVE SpaceRunBack(_, _, _)
SpaceRunBack(s, i, lo) ==
    IF i >= lo /\ IsSpace(s[i]) THEN 1 + SpaceRunBack(s, i - 1, lo) ELSE 0

\* length of the run of digits of s that starts at i
RECURSIVE DigitRun(_, _)
DigitRun(s, i) ==
    IF i <= Len(s) /\ IsDigit(s[i]) THEN 1 + DigitRun(s, i + 1) ELSE 0

\* (?:latex|markdown|math|json)? under the i flag: the length it consumes at i
TagLenPC(s, i) ==
    IF StartsAtCI(s, i, W_latex) THEN Len(W_latex)
    ELSE IF StartsAtCI(s, i, W_markdown) THEN Len(W_markdown)
    ELSE IF StartsAtCI(s, i, W_math) THEN Len(W_math)
    ELSE IF StartsAtCI(s, i, W_json) THEN Len(W_json)
    ELSE 0

\* (?:latex|markdown|math)? under the i flag
TagLenCMS(s, i) ==
    IF StartsAtCI(s, i, W_latex) THEN Len(W_latex)
    ELSE IF StartsAtCI(s, i, W_markdown) THEN Len(W_markdown)
    ELSE IF StartsAtCI(s, i, W_math) THEN Len(W_math)
    ELSE 0

\* ```<tag>?\n?([\s\S]*?)\n?``` where the optional tag consumes tagLen
FenceNlAt(s, i, tagLen) ==
    IF ~StartsAt(s, i, FENCE) THEN NoMatch
    ELSE LET a == i + 3 + tagLen
             b == IF a <= Len(s) /\ s[a] = NL THEN a + 1 ELSE a
             q == IndexOfFrom(s, FENCE, b)
         IN  IF q = 0 THEN NoMatch
             ELSE LET k == IF q - 1 >= b /\ s[q - 1] = NL THEN q - 1 ELSE q
                  IN  Match(i, q + 2, SubSeq(s, b, k - 1))

\* /```(?:latex|markdown|math|json)?\n?([\s\S]*?)\n?```/gi
FencePCAt(s, i) == FenceNlAt(s, i, TagLenPC(s, i + 3))

\* /```(?:latex|markdown|math)?\n?([\s\S]*?)\n?```/gi
FenceCMSAt(s, i) == FenceNlAt(s, i, TagLenCMS(s, i + 3))

\* <open>\s*([\s\S]*?)\s*``` where open is matched under the i flag
FenceWsAt(s, i, open) ==
    IF ~StartsAtCI(s, i, open) THEN NoMatch
    ELSE LET a == i + Len(open)
             b == a + SpaceRun(s, a)
             q == IndexOfFrom(s, FENCE, b)
         IN  IF q = 0 THEN NoMatch
             ELSE LET k == q - SpaceRunBack(s, q - 1, b)
                  IN  Match(i, q + 2, SubSeq(s, b, k - 1))

\* /```latex\s*([\s\S]*?)\s*```/gi
LatexFenceAt(s, i) == FenceWsAt(s, i, FENCE \o W_latex)

\* faulty variant of BareFenceAt: a fence that is never closed is taken to
\* run to the end of the text
BareFenceAt_Unclosed(s, i) ==
    LET m == FenceWsAt(s, i, FENCE)
    IN  IF m.ok \/ ~StartsAt(s, i, FENCE) THEN m
        ELSE Match(i, Len(s), SubSeq(s, i + 3, Len(s)))

\* /```\s*([\s\S]*?)\s*```/gi
BareFenceAt(s, i) == FenceWsAt(s, i, FENCE)

\* <open>[\s\S]*?<close>, group 1 being the match without its first skipL and
\* last skipR characters
LazyPairAt(s, i, open, close, skipL, skipR) ==
    IF ~StartsAt(s, i, open) THEN NoMatch
    ELSE LET q == IndexOfFrom(s, close, i + Len(open))
         IN  IF q = 0 THEN NoMatch
             ELSE LET e == q + Len(close) - 1
                  IN  Match(i, e, SubSeq(s, i + skipL, e - skipR))

\* /`(\$\$[\s\S]*?\$\$)`/gi
TickedBlockAt(s, i) ==
    LazyPairAt(s, i, <<BT, DOLLAR, DOLLAR>>, <<DOLLAR, DOLLAR, BT>>, 1, 1)

\* /`(\$[\s\S]*?\$)`/gi
TickedInlineAt(s, i) ==
    LazyPairAt(s, i, <<BT, DOLLAR>>, <<DOLLAR, BT>>, 1, 1)

\* /\$\$([\s\S]*?)\$\$/g
BlockMathAt(s, i) ==
    LazyPairAt(s, i, <<DOLLAR, DOLLAR>>, <<DOLLAR, DOLLAR>>, 2, 2)

\* /\$([\s\S]*?)\$/g
InlineMathAt(s, i) ==
    LazyPairAt(s, i, <<DOLLAR>>, <<DOLLAR>>, 1, 1)

\* <word>(\d+)END
TokenAt(s, i, word) ==
    IF ~StartsAt(s, i, word) THEN NoMatch
    ELSE LET a == i + Len(word)
             n == DigitRun(s, a)
         IN  IF n >= 1 /\ StartsAt(s, a + n, W_END)
             THEN Match(i, a + n + 2, SubSeq(s, a, a + n - 1))
             ELSE NoMatch

\* /MATHBLOCK(\d+)END/g
BlockTokenAt(s, i) == TokenAt(s, i, W_MATHBLOCK)

\* /MATHINLINE(\d+)END/g
InlineTokenAt(s, i) == TokenAt(s, i, W_MATHINLINE)

\* a literal, as in /\\\[/g
LiteralAt(s, i, w) ==
    IF StartsAt(s, i, w) THEN Match(i, i + Len(w) - 1, <<>>) ELSE NoMatch

\* ^ under the m flag
LineStart(s, i) == i = 1 \/ (i > 1 /\ s[i - 1] = NL)

\* index of the last character of the line that position i lies on
RECURSIVE LineEnd(_, _)
LineEnd(s, i) ==
    IF i > Len(s) \/ s[i] = NL THEN i - 1 ELSE LineEnd(s, i + 1)

\* /^<prefix>(.*$)/gim
LinePrefixAt(s, i, prefix) ==
    IF LineStart(s, i) /\ StartsAt(s, i, prefix)
    THEN LET e == LineEnd(s, i + Len(prefix))
         IN  Match(i, e, SubSeq(s, i + Len(prefix), e))
    ELSE NoMatch

\* <d>(.*?)<d>: "." does not match a line terminator
LazyLineAt(s, i, d) ==
    IF ~StartsAt(s, i, d) THEN NoMatch
    ELSE LET a == i + Len(d)
             q == IndexOfFrom(s, d, a)
         IN  IF q = 0 \/ Includes(SubSeq(s, a, q - 1), NL) THEN NoMatch
             ELSE Match(i, q + Len(d) - 1, SubSeq(s, a, q - 1))

STAR == "*"

\* the regular expressions, by name
MatchAt(re, s, i) ==
    CASE re = "fencePC"      -> FencePCAt(s, i)
      [] re = "fenceCMS"     -> FenceCMSAt(s, i)
      [] re = "tickedBlock"  -> TickedBlockAt(s, i)
      [] re = "tickedInline" -> TickedInlineAt(s, i)
      [] re = "blockMath"    -> BlockMathAt(s, i)
      [] re = "inlineMath"   -> InlineMathAt(s, i)
      [] re = "blockToken"   -> BlockTokenAt(s, i)
      [] re = "inlineToken"  -> InlineTokenAt(s, i)
      [] re = "latexFence"   -> LatexFenceAt(s, i)
      [] re = "bareFence"    -> BareFenceAt(s, i)
      [] re = "openBracket"  -> LiteralAt(s, i, <<BSL, "[">>)
      [] re = "closeBracket" -> LiteralAt(s, i, <<BSL, "]">>)
      [] re = "openParen"    -> LiteralAt(s, i, <<BSL, "(">>)
      [] re = "closeParen"   -> LiteralAt(s, i, <<BSL, ")">>)
      [] re = "h3"           -> LinePrefixAt(s, i, <<"#", "#", "#", SP>>)
      [] re = "h2"           -> LinePrefixAt(s, i, <<"#", "#", SP>>)
      [] re = "h1"           -> LinePrefixAt(s, i, <<"#", SP>>)
      [] re = "bold"         -> LazyLineAt(s, i, <<STAR, STAR>>)
      [] re = "italics"      -> LazyLineAt(s, i, <<STAR>>)
      [] re = "list"         -> LinePrefixAt(s, i, <<"-", SP>>)
      [] re = "blockquote"   -> LinePrefixAt(s, i, <<">", SP>>)
      [] re = "newline"      -> LiteralAt(s, i, <<NL>>)

\* the matches of a global (g flag) expression, left to right, each search
\* resuming after the previous match (no expression here matches the empty
\* string)
RECURSIVE FindAll(_, _, _)
FindAll(re, s, i) ==
    IF i > Len(s) THEN <<>>
    ELSE LET m == MatchAt(re, s, i)
         IN  IF m.ok THEN <<m>> \o FindAll(re, s, m.to + 1)
             ELSE FindAll(re, s, i + 1)

\* s with match ms[j] replaced by reps[j], for j >= from; pos is the first
\* position of s not yet copied
RECURSIVE Splice(_, _, _, _, _)
Splice(s, ms, reps, j, pos) ==
    IF j > Len(ms) THEN SubSeq(s, pos, Len(s))
    ELSE SubSeq(s, pos, ms[j].from - 1) \o reps[j]
         \o Splice(s, ms, reps, j + 1, ms[j].to + 1)

\* the replacement patterns of String.prototype.replace with a string as its
\* second argument: $$ inserts one "$", $1 inserts group 1, $& the match
RECURSIVE Expand(_, _, _)
Expand(tpl, whole, g) ==
    IF tpl = <<>> THEN <<>>
    ELSE IF Len(tpl) >= 2 /\ tpl[1] = DOLLAR /\ tpl[2] = DOLLAR
         THEN <<DOLLAR>> \o Expand(SubSeq(tpl, 3, Len(tpl)), whole, g)
    ELSE IF Len(tpl) >= 2 /\ tpl[1] = DOLLAR /\ tpl[2] = "1"
         THEN g \o Expand(SubSeq(tpl, 3, Len(tpl)), whole, g)
    ELSE IF Len(tpl) >= 2 /\ tpl[1] = DOLLAR /\ tpl[2] = "&"
         THEN whole \o Expand(SubSeq(tpl, 3, Len(tpl)), whole, g)
    ELSE <<tpl[1]>> \o Expand(Tail(tpl), whole, g)

\* s.replace(re, tpl) for a global expression re and a replacement string tpl
ReplaceAll(re, s, tpl) ==
    LET ms == FindAll(re, s, 1)
    IN  Splice(s, ms,
               [j \in 1..Len(ms) |->
                   Expand(tpl, SubSeq(s, ms[j].from, ms[j].to), ms[j].g)],
               1, 1)

-----------------------------------------------------------------------------
(* processContent (src/unnamed/part_001) *)

\* step 1: the three replace calls that strip code blocks around math
CleanCodeBlocks(t) ==
    ReplaceAll("tickedInline",
        ReplaceAll("tickedBlock",
            ReplaceAll("fencePC", t, <<DOLLAR, "1">>),
            <<DOLLAR, "1">>),
        <<DOLLAR, "1">>)

\* the token the masking callback returns for the entry pushed at index n
Token(word, n) == word \o NatToStr(n) \o W_END
BlockToken(n) == Token(W_MATHBLOCK, n)
InlineToken(n) == Token(W_MATHINLINE, n)

\* a masking pass: every match of re is pushed onto blocks and replaced by
\* the token of its index; the callback runs once per match, left to right
MaskPass(re, s, blocks, word) ==
    LET ms == FindAll(re, s, 1)
    IN  [text   |-> Splice(s, ms,
                       [j \in 1..Len(ms) |-> Token(word, Len(blocks) + j - 1)],
                       1, 1),
         blocks |-> blocks \o
                       [j \in 1..Len(ms) |-> SubSeq(s, ms[j].from, ms[j].to)]]

\* a masking pass without the g flag: only the first match is replaced
MaskFirst(re, s, blocks, word) ==
    LET all == FindAll(re, s, 1)
        ms == IF all = <<>> THEN <<>> ELSE <<all[1]>>
    IN  [text   |-> Splice(s, ms,
                       [j \in 1..Len(ms) |-> Token(word, Len(blocks) + j - 1)],
                       1, 1),
         blocks |-> blocks \o
                       [j \in 1..Len(ms) |-> SubSeq(s, ms[j].from, ms[j].to)]]

\* faulty variant of MaskBlockMath: the display pass replaces the first span only
MaskBlockMath_FirstOnly(s, blocks) ==
    MaskFirst("blockMath", s, blocks, W_MATHBLOCK)

\* faulty variant of MaskInlineMath: the inline pass replaces the first span only
MaskInlineMath_FirstOnly(s, blocks) ==
    MaskFirst("inlineMath", s, blocks, W_MATHINLINE)

\* clean.replace(/\$\$([\s\S]*?)\$\$/g, ...)
MaskBlockMath(s, blocks) == MaskPass("blockMath", s, blocks, W_MATHBLOCK)

\* clean.replace(/\$([\s\S]*?)\$/g, ...)
MaskInlineMath(s, blocks) == MaskPass("inlineMath", s, blocks, W_MATHINLINE)

\* mathBlocks[parseInt(index)], converted to a string by replace
BlockEntry(blocks, index) ==
    LET n == ParseInt(index)
    IN  IF n + 1 <= Len(blocks) THEN blocks[n + 1] ELSE W_undefined

\* an unmasking pass: every token of the expression re is replaced by the
\* entry of mathBlocks that its digits name
UnmaskPass(re, s, blocks) ==
    LET ms == FindAll(re, s, 1)
    IN  Splice(s, ms, [j \in 1..Len(ms) |-> BlockEntry(blocks, ms[j].g)], 1, 1)

\* html.replace(/MATHBLOCK(\d+)END/g, ...)
UnmaskBlock(s, blocks) == UnmaskPass("blockToken", s, blocks)

\* html.replace(/MATHINLINE(\d+)END/g, ...)
UnmaskInline(s, blocks) == UnmaskPass("inlineToken", s, blocks)

\* Tags of the HTML that marked produces
P_OPEN == "<p>"
P_CLOSE == "</p>"
STRONG_OPEN == "<strong>"
STRONG_CLOSE == "</strong>"
EM_OPEN == "<em>"
EM_CLOSE == "</em>"

\* marked.parse, the markdown library the page loads: a paragraph with its
\* strong and emphasis spans converted.  Letters, digits and "$" pass through.
MarkedParse(s) ==
    IF s = <<>> THEN <<>>
    ELSE <<P_OPEN>>
         \o ReplaceAll("italics",
                ReplaceAll("bold", s, <<STRONG_OPEN, DOLLAR, "1", STRONG_CLOSE>>),
                <<EM_OPEN, DOLLAR, "1", EM_CLOSE>>)
         \o <<P_CLOSE, NL>>

\* (window as any).marked ? marked.parse(clean) : clean
ParseMarkdown(present, s) == IF present THEN MarkedParse(s) ELSE s

\* the sequences of at most n elements of S
SeqsUpTo(S, n) == UNION {[1..k -> S] : k \in 0..n}

\* the pieces that inputs are built from
MaskPieces ==
    {<<DOLLAR>>, <<DOLLAR, DOLLAR>>, <<"a">>, BlockToken(0)}

\* the lines that open and close a fenced block
OPEN_BARE == FENCE \o <<NL>>
OPEN_LATEX == FENCE \o W_latex \o <<NL>>
OPEN_PYTHON == FENCE \o W_python \o <<NL>>
CLOSE_FENCE == <<NL>> \o FENCE

FencePieces ==
    {OPEN_BARE, OPEN_LATEX, OPEN_PYTHON, CLOSE_FENCE,
     <<"x">>, <<"=">>, <<BSL>>, <<SP>>}
TickPieces ==
    {OPEN_LATEX, OPEN_PYTHON, CLOSE_FENCE, <<BT>>, <<DOLLAR>>, <<STAR>>}

MaskInputs == {Concat(ps) : ps \in SeqsUpTo(MaskPieces, MaxMaskPieces)}
FenceInputs == {Concat(ps) : ps \in SeqsUpTo(FencePieces, MaxFencePieces)}
TickInputs == {Concat(ps) : ps \in SeqsUpTo(TickPieces, MaxFencePieces)}

InitPC ==
    /\ pc = "pc_start"
    /\ text \in MaskInputs \cup TickInputs
    /\ hasMarked \in BOOLEAN
    /\ clean = <<>>
    /\ mathBlocks = <<>>
    /\ html = <<>>
    /\ cleaned = <<>>
    /\ formatted = <<>>
    /\ AppStart

\* if (!text) return ""
ProcessContent_Empty ==
    /\ pc = "pc_start"
    /\ text = <<>>
    /\ html' = <<>>
    /\ pc' = "pc_done"
    /\ UNCHANGED <<text, hasMarked, clean, mathBlocks, cleaned, formatted>>
    /\ UNCHANGED appVars

ProcessContent_Clean ==
    /\ pc = "pc_start"
    /\ text # <<>>
    /\ clean' = CleanCodeBlocks(text)
    /\ pc' = "pc_maskBlock"
    /\ UNCHANGED <<text, hasMarked, mathBlocks, html, cleaned, formatted>>
    /\ UNCHANGED appVars

ProcessContent_MaskBlock ==
    /\ pc = "pc_maskBlock"
    /\ LET r == MaskBlockMath(clean, mathBlocks)
       IN  /\ clean' = r.text
           /\ mathBlocks' = r.blocks
    /\ pc' = "pc_maskInline"
    /\ UNCHANGED <<text, hasMarked, html, cleaned, formatted>>
    /\ UNCHANGED appVars

ProcessContent_MaskInline ==
    /\ pc = "pc_maskInline"
    /\ LET r == MaskInlineMath(clean, mathBlocks)
       IN  /\ clean' = r.text
           /\ mathBlocks' = r.blocks
    /\ pc' = "pc_parse"
    /\ UNCHANGED <<text, hasMarked, html, cleaned, formatted>>
    /\ UNCHANGED appVars

ProcessContent_Parse ==
    /\ pc = "pc_parse"
    /\ html' = ParseMarkdown(hasMarked, clean)
    /\ pc' = "pc_unmaskBlock"
    /\ UNCHANGED <<text, hasMarked, clean, mathBlocks, cleaned, formatted>>
    /\ UNCHANGED appVars

ProcessContent_UnmaskBlock ==
    /\ pc = "pc_unmaskBlock"
    /\ html' = UnmaskBlock(html, mathBlocks)
    /\ pc' = "pc_unmaskInline"
    /\ UNCHANGED <<text, hasMarked, clean, mathBlocks, cleaned, formatted>>
    /\ UNCHANGED appVars

\* the second unmasking pass and the return of html
ProcessContent_UnmaskInline ==
    /\ pc = "pc_unmaskInline"
    /\ html' = UnmaskInline(html, mathBlocks)
    /\ pc' = "pc_done"
    /\ UNCHANGED <<text, hasMarked, clean, mathBlocks, cleaned, formatted>>
    /\ UNCHANGED appVars

NextPC ==
    \/ ProcessContent_Empty
    \/ ProcessContent_Clean
    \/ ProcessContent_MaskBlock
    \/ ProcessContent_MaskInline
    \/ ProcessContent_Parse
    \/ ProcessContent_UnmaskBlock
    \/ ProcessContent_UnmaskInline

SpecPC == InitPC /\ [][NextPC]_vars

-----------------------------------------------------------------------------
(* prepareContent and formatText (src/components/MarkdownDisplay.tsx) *)

\* text.replace(/```latex\s*([\s\S]*?)\s*```/gi, '$$$1$$')
PrepareLatexFences(t) ==
    ReplaceAll("latexFence", t,
               <<DOLLAR, DOLLAR, DOLLAR, "1", DOLLAR, DOLLAR>>)

\* faulty variant of BareFenceCallback: the test for a backslash is missing
BareFenceCallback_EqualsOnly(match, p1) ==
    IF Includes(p1, "=")
    THEN <<DOLLAR, DOLLAR>> \o p1 \o <<DOLLAR, DOLLAR>>
    ELSE match

\* the callback (match, p1) of the second replace
BareFenceCallback(match, p1) ==
    IF Includes(p1, BSL) \/ Includes(p1, "=")
    THEN <<DOLLAR, DOLLAR>> \o p1 \o <<DOLLAR, DOLLAR>>
    ELSE match

\* cleaned.replace(/```\s*([\s\S]*?)\s*```/gi, (match, p1) => ...)
PrepareBareFences(t) ==
    LET ms == FindAll("bareFence", t, 1)
    IN  Splice(t, ms,
               [j \in 1..Len(ms) |->
                   BareFenceCallback(SubSeq(t, ms[j].from, ms[j].to), ms[j].g)],
               1, 1)

\* cleaned.replace(/\\\[/g, '$$').replace(/\\\]/g, '$$')
NormalizeDisplay(t) ==
    ReplaceAll("closeBracket",
        ReplaceAll("openBracket", t, <<DOLLAR, DOLLAR>>),
        <<DOLLAR, DOLLAR>>)

\* faulty variant of NormalizeInline: the replacement of \) is missing
NormalizeInline_OpenOnly(t) ==
    ReplaceAll("openParen", t, <<DOLLAR>>)

\* cleaned.replace(/\\\(/g, '$').replace(/\\\)/g, '$')
NormalizeInline(t) ==
    ReplaceAll("closeParen",
        ReplaceAll("openParen", t, <<DOLLAR>>),
        <<DOLLAR>>)

\* prepareContent as a whole
PrepareContent(t) ==
    IF t = <<>> THEN <<>>
    ELSE NormalizeInline(NormalizeDisplay(PrepareBareFences(PrepareLatexFences(t))))

\* Tags that formatText inserts
H3_OPEN == "<h3 class=\"text-lg font-bold text-paris-500 mt-4 mb-2 font-serif\">"
H3_CLOSE == "</h3>"
H2_OPEN == "<h2 class=\"text-xl font-bold text-paris-700 mt-5 mb-3 border-b border-mist-200 pb-1 font-serif\">"
H2_CLOSE == "</h2>"
H1_OPEN == "<h1 class=\"text-2xl font-bold text-paris-900 mt-6 mb-4 font-serif\">"
H1_CLOSE == "</h1>"
BOLD_OPEN == "<strong class=\"text-paris-900 font-bold\">"
BOLD_CLOSE == "</strong>"
ITALIC_OPEN == "<em class=\"text-paris-600 italic\">"
ITALIC_CLOSE == "</em>"
LI_OPEN == "<li class=\"ml-4 list-disc text-paris-800 mb-1\">"
LI_CLOSE == "</li>"
QUOTE_OPEN == "<blockquote class=\"border-l-4 border-peach-400 bg-peach-100 p-3 italic text-paris-800 my-2 rounded-r shadow-sm\">"
QUOTE_CLOSE == "</blockquote>"
BR == "<br />"

Wrap(open, close) == <<open, DOLLAR, "1", close>>

\* the three header replacements
FormatHeaders(t) ==
    ReplaceAll("h1",
        ReplaceAll("h2",
            ReplaceAll("h3", t, Wrap(H3_OPEN, H3_CLOSE)),
            Wrap(H2_OPEN, H2_CLOSE)),
        Wrap(H1_OPEN, H1_CLOSE))

FormatBold(t) == ReplaceAll("bold", t, Wrap(BOLD_OPEN, BOLD_CLOSE))

FormatItalics(t) == ReplaceAll("italics", t, Wrap(ITALIC_OPEN, ITALIC_CLOSE))

FormatLists(t) == ReplaceAll("list", t, Wrap(LI_OPEN, LI_CLOSE))

FormatBlockquotes(t) == ReplaceAll("blockquote", t, Wrap(QUOTE_OPEN, QUOTE_CLOSE))

FormatNewlines(t) == ReplaceAll("newline", t, <<BR>>)

\* the chain of replacements of formatText, applied to the prepared text
FormatChain(prepared) ==
    FormatNewlines(FormatBlockquotes(FormatLists(FormatItalics(FormatBold(
        FormatHeaders(prepared))))))

FormatPieces ==
    {<<DOLLAR>>, <<STAR>>, <<"a">>, <<NL>>, <<BSL, "[">>}

FormatInputs == {Concat(ps) : ps \in SeqsUpTo(FormatPieces, MaxFormatPieces)}

\* the alternate delimiters \[ \] \( \)
OPEN_BRACKET == <<BSL, "[">>
CLOSE_BRACKET == <<BSL, "]">>
OPEN_PAREN == <<BSL, "(">>
CLOSE_PAREN == <<BSL, ")">>

DelimPieces ==
    {OPEN_BRACKET, CLOSE_BRACKET, OPEN_PAREN, CLOSE_PAREN,
     <<"x">>, <<DOLLAR>>, <<BSL>>}

DelimInputs == {Concat(ps) : ps \in SeqsUpTo(DelimPieces, MaxDelimPieces)}

InitFT ==
    /\ pc = "ft_start"
    /\ text \in FormatInputs \cup FenceInputs \cup DelimInputs
    /\ hasMarked = FALSE
    /\ clean = <<>>
    /\ mathBlocks = <<>>
    /\ html = <<>>
    /\ cleaned = <<>>
    /\ formatted = <<>>
    /\ AppStart

\* prepareContent: if (!text) return ""
PrepareContent_Empty ==
    /\ pc = "ft_start"
    /\ text = <<>>
    /\ cleaned' = <<>>
    /\ pc' = "ft_prepared"
    /\ UNCHANGED <<text, hasMarked, clean, mathBlocks, html, formatted>>
    /\ UNCHANGED appVars

PrepareContent_LatexFences ==
    /\ pc = "ft_start"
    /\ text # <<>>
    /\ cleaned' = PrepareLatexFences(text)
    /\ pc' = "ft_bareFences"
    /\ UNCHANGED <<text, hasMarked, clean, mathBlocks, html, formatted>>
    /\ UNCHANGED appVars

PrepareContent_BareFences ==
    /\ pc = "ft_bareFences"
    /\ cleaned' = PrepareBareFences(cleaned)
    /\ pc' = "ft_display"
    /\ UNCHANGED <<text, hasMarked, clean, mathBlocks, html, formatted>>
    /\ UNCHANGED appVars

PrepareContent_Display ==
    /\ pc = "ft_display"
    /\ cleaned' = NormalizeDisplay(cleaned)
    /\ pc' = "ft_inline"
    /\ UNCHANGED <<text, hasMarked, clean, mathBlocks, html, formatted>>
    /\ UNCHANGED appVars

\* the last replacement of prepareContent and its return
PrepareContent_Inline ==
    /\ pc = "ft_inline"
    /\ cleaned' = NormalizeInline(cleaned)
    /\ pc' = "ft_prepared"
    /\ UNCHANGED <<text, hasMarked, clean, mathBlocks, html, formatted>>
    /\ UNCHANGED appVars

\* formatText with the value prepareContent returned
FormatText ==
    /\ pc = "ft_prepared"
    /\ formatted' = FormatChain(cleaned)
    /\ pc' = "ft_done"
    /\ UNCHANGED <<text, hasMarked, clean, mathBlocks, html, cleaned>>
    /\ UNCHANGED appVars

NextFT ==
    \/ PrepareContent_Empty
    \/ PrepareContent_LatexFences
    \/ PrepareContent_BareFences
    \/ PrepareContent_Display
    \/ PrepareContent_Inline
    \/ FormatText

SpecFT == InitFT /\ [][NextFT]_vars

-----------------------------------------------------------------------------
(* Vocabulary of the properties *)

\* w occurs somewhere in s
Occurs(w, s) == IndexOfFrom(s, w, 1) # 0

\* s contains a substring MATHBLOCK<digits>END or MATHINLINE<digits>END
HasToken(s) ==
    \E i \in 1..Len(s) : BlockTokenAt(s, i).ok \/ InlineTokenAt(s, i).ok

\* s contains the word MATHBLOCK or MATHINLINE
HasTokenWord(s) == Occurs(W_MATHBLOCK, s) \/ Occurs(W_MATHINLINE, s)

\* s contains no complete $...$ span: no two "$"
NoInlineSpan(s) == Count(s, DOLLAR) <= 1

\* s contains no complete $$...$$ span: no two "$$" that do not overlap
NoBlockSpan(s) ==
    LET i == IndexOfFrom(s, <<DOLLAR, DOLLAR>>, 1)
    IN  i = 0 \/ IndexOfFrom(s, <<DOLLAR, DOLLAR>>, i + 2) = 0

\* e is a display span: $$, a content, $$
IsDisplaySpan(e) ==
    /\ Len(e) >= 4
    /\ StartsAt(e, 1, <<DOLLAR, DOLLAR>>)
    /\ StartsAt(e, Len(e) - 1, <<DOLLAR, DOLLAR>>)

\* e is an inline span: $, a content without "$", $
IsInlineSpan(e) ==
    /\ Len(e) >= 2
    /\ e[1] = DOLLAR
    /\ e[Len(e)] = DOLLAR
    /\ Count(e, DOLLAR) = 2

RECURSIVE TrimLeft(_)
TrimLeft(s) == IF s # <<>> /\ IsSpace(Head(s)) THEN TrimLeft(Tail(s)) ELSE s

RECURSIVE TrimRight(_)
TrimRight(s) ==
    IF s # <<>> /\ IsSpace(s[Len(s)])
    THEN TrimRight(SubSeq(s, 1, Len(s) - 1)) ELSE s

\* s without the white space at its two ends
Trim(s) == TrimRight(TrimLeft(s))

\* what lies between the opening line open and the closing line of a text
\* that is one fenced block
Inner(t, open) == SubSeq(t, Len(open) + 1, Len(t) - Len(CLOSE_FENCE))

\* t is one fenced block: the opening line open, a content without backtick
\* and the closing line
IsFenced(t, open) ==
    /\ Len(t) >= Len(open) + Len(CLOSE_FENCE)
    /\ StartsAt(t, 1, open)
    /\ StartsAt(t, Len(t) - Len(CLOSE_FENCE) + 1, CLOSE_FENCE)
    /\ ~Includes(Inner(t, open), BT)

PCAfterMasking == {"pc_parse", "pc_unmaskBlock", "pc_unmaskInline", "pc_done"}

-----------------------------------------------------------------------------
(* Properties of processContent, checked under SpecPC *)

\* C1: when the input holds no token text of its own, the output of
\* processContent contains no MATHBLOCK<n>END or MATHINLINE<n>END token:
\* every token that masking inserted has been replaced by its span.
C1_NoTokenLeak ==
    (/\ pc = "pc_done"
     /\ ~HasTokenWord(text)
     /\ ~HasTokenWord(CleanCodeBlocks(text)))
    => ~HasToken(html)

\* C2: when marked is absent and the input holds no literal token,
\* processContent returns exactly the fence-stripped text.
C2_RoundTrip ==
    (/\ pc = "pc_done"
     /\ ~hasMarked
     /\ ~HasToken(text)
     /\ ~HasTokenWord(CleanCodeBlocks(text)))
    => html = CleanCodeBlocks(text)

\* C3: the two unmasking passes commute: the output, which replaces
\* MATHBLOCK tokens first, equals the result of replacing MATHINLINE tokens
\* first (stated for inputs that hold no token text of their own).
C3_UnmaskCommutes ==
    (pc = "pc_done" /\ text # <<>> /\ ~HasTokenWord(text))
    => html = UnmaskBlock(
                  UnmaskInline(ParseMarkdown(hasMarked, clean), mathBlocks),
                  mathBlocks)

\* the token of entry n is in the masked text or inside a later entry
TokenPlaced(n) ==
    \E s \in {clean} \cup {mathBlocks[k] : k \in (n + 2)..Len(mathBlocks)} :
        Occurs(BlockToken(n), s) \/ Occurs(InlineToken(n), s)

\* C5: the stages are ordered. Nothing is produced or unmasked before the
\* markdown conversion; when the conversion is called every recorded span
\* has been replaced by its token and the text handed over contains no
\* complete $$...$$ or $...$ span; unmasking starts from the result of the
\* conversion.
C5_MaskBeforeParse ==
    /\ pc \in {"pc_start", "pc_maskBlock", "pc_maskInline", "pc_parse"}
          => html = <<>>
    /\ (pc \in PCAfterMasking /\ text # <<>>)
          => /\ NoInlineSpan(clean)
             /\ NoBlockSpan(clean)
             /\ \A n \in 0..(Len(mathBlocks) - 1) : TokenPlaced(n)
    /\ pc = "pc_unmaskBlock" => html = ParseMarkdown(hasMarked, clean)

\* C5 witness: the conversion of marked has been called on a text in which a
\* math span was masked, and has converted an emphasis around its token
C5_Witness ==
    /\ pc = "pc_unmaskBlock"
    /\ hasMarked
    /\ Len(mathBlocks) >= 1
    /\ Occurs(<<EM_OPEN>> \o InlineToken(0) \o <<EM_CLOSE>>, html)

\* C6: the inline pass starts only when the display pass is over. No entry
\* is recorded before the display pass; the text the inline pass scans
\* contains no complete $$...$$ span and every entry recorded so far is a
\* display span; afterwards the entries are the display spans followed by
\* the inline spans, and an input that is one display span is recorded as
\* one entry, never as two inline spans.
C6_DisplayBeforeInline ==
    /\ pc \in {"pc_start", "pc_maskBlock"} => mathBlocks = <<>>
    /\ pc = "pc_maskInline"
          => /\ NoBlockSpan(clean)
             /\ \A k \in 1..Len(mathBlocks) : IsDisplaySpan(mathBlocks[k])
    /\ pc \in PCAfterMasking
          => /\ \A k \in 1..Len(mathBlocks) :
                    IsDisplaySpan(mathBlocks[k]) \/ IsInlineSpan(mathBlocks[k])
             /\ \A k, l \in 1..Len(mathBlocks) :
                    (k < l /\ IsInlineSpan(mathBlocks[k]))
                        => IsInlineSpan(mathBlocks[l])
             /\ (IsDisplaySpan(text) /\ Count(text, DOLLAR) = 4)
                    => mathBlocks = <<text>>

\* C6 witness: a display span and an inline span have been recorded
C6_Witness ==
    /\ pc = "pc_parse"
    /\ Len(mathBlocks) >= 2
    /\ IsDisplaySpan(mathBlocks[1])
    /\ IsInlineSpan(mathBlocks[Len(mathBlocks)])

\* C7: for an input without "$" and without backtick, processContent
\* records no entry and returns the markdown conversion of the input.
C7_PlainTextPassThrough ==
    (pc = "pc_done" /\ ~Includes(text, DOLLAR) /\ ~Includes(text, BT))
    => (mathBlocks = <<>> /\ html = ParseMarkdown(hasMarked, text))

-----------------------------------------------------------------------------
(* Properties of prepareContent and formatText, checked under SpecFT *)

\* C4: a text that is one inline math span of one line comes out of
\* formatText verbatim: no markup is inserted inside the span.
C4_MathVerbatim ==
    (pc = "ft_done" /\ IsInlineSpan(cleaned) /\ ~Includes(cleaned, NL))
    => formatted = cleaned

\* the content of a fence has no white space at its ends
IsTrimmed(c) == c # <<>> /\ Trim(c) = c

\* C8: a fence tagged latex around a content c is rewritten by
\* prepareContent to a text that contains $$c$$ and no backtick.
C8_LatexFenceToDisplay ==
    (/\ pc = "ft_prepared"
     /\ IsFenced(text, OPEN_LATEX)
     /\ IsTrimmed(Inner(text, OPEN_LATEX)))
    => /\ Occurs(<<DOLLAR, DOLLAR>> \o Inner(text, OPEN_LATEX)
                     \o <<DOLLAR, DOLLAR>>, cleaned)
       /\ ~Includes(cleaned, BT)

HasAltDelimiter(s) ==
    \/ Occurs(OPEN_BRACKET, s) \/ Occurs(CLOSE_BRACKET, s)
    \/ Occurs(OPEN_PAREN, s) \/ Occurs(CLOSE_PAREN, s)

\* t is open, a content x that is not empty and close, x free of backslash, "$" and backtick
IsDelimited(t, open, close) ==
    /\ Len(t) > Len(open) + Len(close)
    /\ StartsAt(t, 1, open)
    /\ StartsAt(t, Len(t) - Len(close) + 1, close)
    /\ LET x == SubSeq(t, Len(open) + 1, Len(t) - Len(close))
       IN  ~Includes(x, BSL) /\ ~Includes(x, DOLLAR) /\ ~Includes(x, BT)

\* the content x of a text for which IsDelimited holds
Delimited(t) == SubSeq(t, 3, Len(t) - 2)

\* C11: prepareContent maps \[x\] to $$x$$ and \(x\) to $x$, for every
\* content x.
C11_DelimiterNormalization ==
    /\ (pc = "ft_prepared" /\ IsDelimited(text, OPEN_BRACKET, CLOSE_BRACKET))
       => cleaned = <<DOLLAR, DOLLAR>> \o Delimited(text) \o <<DOLLAR, DOLLAR>>
    /\ (pc = "ft_prepared" /\ IsDelimited(text, OPEN_PAREN, CLOSE_PAREN))
       => cleaned = <<DOLLAR>> \o Delimited(text) \o <<DOLLAR>>

\* s with every \[ \] \( \) replaced by "$", in one scan from the left
RECURSIVE SubstDelims(_)
SubstDelims(s) ==
    IF s = <<>> THEN <<>>
    ELSE IF Len(s) >= 2 /\ s[1] = BSL /\ s[2] \in {"[", "]", "(", ")"}
         THEN <<DOLLAR>> \o SubstDelims(SubSeq(s, 3, Len(s)))
         ELSE <<Head(s)>> \o SubstDelims(Tail(s))

\* C12: the delimiter normalization of prepareContent replaces every
\* occurrence of \[ \] \( \) on its own, with or without a partner, leaves
\* the rest of the text as the fence rewriting produced it, and returns a
\* text without any of the four sequences.
C12_OccurrenceSubstitution ==
    (pc = "ft_prepared" /\ text # <<>>)
    => /\ cleaned = SubstDelims(PrepareBareFences(PrepareLatexFences(text)))
       /\ ~HasAltDelimiter(cleaned)

\* C12 witness: a closing \) without any opening \( has been replaced
C12_Witness ==
    /\ pc = "ft_prepared"
    /\ Occurs(CLOSE_PAREN, text)
    /\ ~Occurs(OPEN_PAREN, text)
    /\ ~Occurs(FENCE, text)
    /\ cleaned = SubstDelims(text)
    /\ cleaned # text

\* s holds at most one fence marker, so no fence of s is closed
NoFencePair(s) ==
    LET i == IndexOfFrom(s, FENCE, 1)
    IN  i = 0 \/ IndexOfFrom(s, FENCE, i + 3) = 0

\* s holds a fence marker that is never closed
LoneFence(s) == Occurs(FENCE, s) /\ NoFencePair(s)

\* the "$" of s are one lone "$" or one lone "$$"
LoneDollar(s) ==
    \/ Count(s, DOLLAR) = 1
    \/ (Count(s, DOLLAR) = 2 /\ Occurs(<<DOLLAR, DOLLAR>>, s))

\* s opens \[ or \( and holds no closing \] or \) at all
OpenWithoutCloser(s) ==
    /\ Occurs(OPEN_BRACKET, s) \/ Occurs(OPEN_PAREN, s)
    /\ ~Occurs(CLOSE_BRACKET, s)
    /\ ~Occurs(CLOSE_PAREN, s)

\* C13 as stated: prepareContent returns unchanged every input whose
\* delimiters are unbalanced: an opening \[ or \( without closer, a lone "$"
\* or "$$", an opening fence that is never closed.
C13_UnbalancedUnchanged ==
    (/\ pc = "ft_prepared"
     /\ NoFencePair(text)
     /\ OpenWithoutCloser(text) \/ LoneDollar(text) \/ LoneFence(text))
    => cleaned = text

\* C13 amended: prepareContent returns unchanged every input that holds a
\* lone "$" or "$$" or a fence that is never closed, and none of \[ \] \( \).
C13_UnbalancedDollarOrFenceUnchanged ==
    (/\ pc = "ft_prepared"
     /\ NoFencePair(text)
     /\ ~HasAltDelimiter(text)
     /\ LoneDollar(text) \/ LoneFence(text))
    => cleaned = text

\* C13 witness: a fence that is never closed, with "=" after it, has been
\* returned as it was
C13_Witness ==
    /\ pc = "ft_prepared"
    /\ LoneFence(text)
    /\ StartsAt(text, 1, FENCE)
    /\ Includes(text, "=")
    /\ cleaned = text

-----------------------------------------------------------------------------
(* Further properties of processContent, checked under SpecPC *)

\* C14: on a text without fence marker and without \[ \] \( \) the first
\* stage of processContent returns the text itself, and applying the stage
\* to its own result changes nothing.
C14_IdempotentOnClean ==
    (/\ pc = "pc_maskBlock"
     /\ ~Occurs(FENCE, text)
     /\ ~HasAltDelimiter(text))
    => /\ clean = text
       /\ CleanCodeBlocks(clean) = clean

\* C15: processContent returns the empty string for an empty input; for an
\* input whose only "$" are one unterminated "$" or "$$" it records no
\* entry and its output holds the delimiter as it was written.
C15_Total ==
    /\ (pc = "pc_done" /\ text = <<>>) => html = <<>>
    /\ (/\ pc = "pc_done"
        /\ LoneDollar(text)
        /\ ~Includes(text, BT)
        /\ ~HasTokenWord(text))
       => /\ mathBlocks = <<>>
          /\ Count(html, DOLLAR) = Count(text, DOLLAR)
          /\ Occurs(<<DOLLAR, DOLLAR>>, text) => Occurs(<<DOLLAR, DOLLAR>>, html)

-----------------------------------------------------------------------------
(* The App component and its views *)

\* the sections the user navigates to
NavSections == {DEFINITIONS, THEOREMS, REVIEW}

\* what the user types and selects
Terms == {"Limit"}
DefinitionTexts == {"typed definition"}
EditedTexts == {"edited definition"}
Notes == {"my reflection"}
Names == {"Bolzano"}
Statements == {"typed statement"}
EditedStatements == {"edited statement"}
PreviewUrls == {"data:image/png;base64,AAAA"}
MasteryChoices == {4}

\* what the AI answers for ucl_importance
AiImportance == {"High"}
\* the JSON answer is complete, or it is the fallback text "{}"
JsonShapes == {"complete", "{}"}

\* s.trim() is empty, for the texts above
IsBlank(s) == s \in {"", " "}

\* Date.now().toString()
NowString == ToString(now)

\* the ids a record can have
RecordIds == {ToString(t) : t \in 1..MaxClock}

\* obj.field of a parsed JSON object
Field(obj, field) == IF field \in DOMAIN obj THEN obj[field] ELSE UNDEFINED

\* { ...d, ...updates }
Merge(d, updates) == updates @@ d

\* faulty variant of UpdateById: the update goes to the first record
UpdateById_First(items, id, updates) ==
    [i \in 1..Len(items) |->
        IF i = 1 THEN Merge(items[i], updates) ELSE items[i]]

\* faulty variant of UpdateById: the update goes to every record
UpdateById_All(items, id, updates) ==
    [i \in 1..Len(items) |-> Merge(items[i], updates)]

\* prev.map(d => d.id === id ? { ...d, ...updates } : d)
UpdateById(items, id, updates) ==
    [i \in 1..Len(items) |->
        IF items[i].id = id THEN Merge(items[i], updates) ELSE items[i]]

\* items.find(d => d.id === id) finds a record
HasItem(items, id) == \E i \in 1..Len(items) : items[i].id = id

\* the user adds at most MaxRecords records, and fills the form of a view
\* only for a record that can still be added
CanAdd == Len(definitions) + Len(theorems) < MaxRecords

\* the number of fields of the definitions that the user has edited
DefinitionEdits ==
    LET D == 1..Len(definitions)
    IN  Cardinality({i \in D : definitions[i].userContent \in EditedTexts})
        + Cardinality({i \in D : definitions[i].userNotes # NULL})
        + Cardinality({i \in D : definitions[i].mastery # 1})

\* the number of fields of the theorems that the user has edited
TheoremEdits ==
    LET T == 1..Len(theorems)
    IN  Cardinality({i \in T : theorems[i].content \in EditedStatements})
        + Cardinality({i \in T : theorems[i].mastery # 1})

\* the user edits at most MaxEdits fields of the records
CanEdit == DefinitionEdits + TheoremEdits < MaxEdits

\* the record newDef of handleAdd
NewDefinition(newId) ==
    [id |-> newId, createdAt |-> now, term |-> view.term,
     subjectId |-> view.subject, chapterId |-> view.chapter,
     userContent |-> view.content, userNotes |-> NULL,
     aiContentEn |-> NULL, aiContentZh |-> NULL, funAnalogy |-> NULL,
     chapterConnection |-> NULL, uclImportance |-> "Medium",
     relatedExtensions |-> NULL, flashcardSummary |-> NULL,
     mastery |-> 1, lastReviewed |-> now, isLoading |-> TRUE]

\* the record newTheorem of handleAnalyze
NewTheorem(newId) ==
    [id |-> newId, createdAt |-> now, subjectId |-> view.subject,
     chapterId |-> view.chapter, name |-> view.name, correctedName |-> NULL,
     content |-> view.content, userNotes |-> NULL,
     proofImage |-> view.previewUrl, proofSteps |-> NULL,
     logicMapping |-> NULL, concreteExample |-> NULL,
     flashcardSummary |-> NULL, uclImportance |-> "Medium",
     mastery |-> 1, lastReviewed |-> now, isLoading |-> TRUE]

\* the object expandDefinition returns for the call started for record id:
\* the texts of an answer are told apart by the record they were asked for
DefinitionResult(id, shape, importance) ==
    IF shape = "{}" THEN <<>>
    ELSE [ai_content_en |-> "ai_content_en of " \o id,
          ai_content_zh |-> "ai_content_zh of " \o id,
          fun_analogy |-> "fun_analogy of " \o id,
          chapter_connection |-> "chapter_connection of " \o id,
          ucl_importance |-> importance,
          extensions |-> "extensions of " \o id,
          flashcard_summary |-> "flashcard_summary of " \o id]

\* the object analyzeProof returns for the call started for record id
TheoremResult(id, shape, importance) ==
    IF shape = "{}" THEN <<>>
    ELSE [proof_steps |-> "proof_steps of " \o id,
          logic_mapping |-> "logic_mapping of " \o id,
          corrected_name |-> "corrected_name of " \o id,
          concrete_example |-> "concrete_example of " \o id,
          flashcard_summary |-> "flashcard_summary of " \o id,
          ucl_importance |-> importance]

\* the updates of handleAdd after the await
DefinitionUpdates(result) ==
    [aiContentEn |-> Field(result, "ai_content_en"),
     aiContentZh |-> Field(result, "ai_content_zh"),
     funAnalogy |-> Field(result, "fun_analogy"),
     chapterConnection |-> Field(result, "chapter_connection"),
     uclImportance |-> Field(result, "ucl_importance"),
     relatedExtensions |-> Field(result, "extensions"),
     flashcardSummary |-> Field(result, "flashcard_summary"),
     isLoading |-> FALSE]

ERROR_GENERATING == "Error generating content."
ERROR_ANALYZING == "Error analyzing."

\* faulty variant of DefinitionErrorUpdates: the flag is not reset
DefinitionErrorUpdates_StillLoading ==
    [aiContentEn |-> ERROR_GENERATING, isLoading |-> TRUE]

\* the updates of the catch of handleAdd
DefinitionErrorUpdates ==
    [aiContentEn |-> ERROR_GENERATING, isLoading |-> FALSE]

\* the updates of handleAnalyze after the await
TheoremUpdates(result) ==
    [proofSteps |-> Field(result, "proof_steps"),
     logicMapping |-> Field(result, "logic_mapping"),
     correctedName |-> Field(result, "corrected_name"),
     concreteExample |-> Field(result, "concrete_example"),
     flashcardSummary |-> Field(result, "flashcard_summary"),
     uclImportance |-> Field(result, "ucl_importance"),
     isLoading |-> FALSE]

\* faulty variant of TheoremErrorUpdates: the flag is not reset
TheoremErrorUpdates_StillLoading ==
    [proofSteps |-> ERROR_ANALYZING]

\* the updates of the catch of handleAnalyze
TheoremErrorUpdates ==
    [proofSteps |-> ERROR_ANALYZING, isLoading |-> FALSE]

\* an AI call that is awaited, with what the handler awaiting it holds: the
\* id of its record, whether its view is still mounted, and the editingDef
\* of the render that created the handler
NewCall(kind, newId) ==
    [kind |-> kind, id |-> newId, mounted |-> TRUE, editingDef |-> editingDef]

\* the calls that are awaited once call k has settled
Settled(k) ==
    [j \in 1..(Len(calls) - 1) |-> IF j < k THEN calls[j] ELSE calls[j + 1]]

\* App.updateDefinition(id, updates), from a render that saw editingDef as seen
UpdateDefinition(id, updates, seen) ==
    /\ definitions' = UpdateById(definitions, id, updates)
    /\ editingDef' = IF seen # <<>> /\ seen[1].id = id /\ editingDef # <<>>
                     THEN <<Merge(editingDef[1], updates)>>
                     ELSE editingDef

\* App.updateTheorem(id, updates)
UpdateTheorem(id, updates) ==
    theorems' = UpdateById(theorems, id, updates)

\* App.updateProblem(id, updates)
UpdateProblem(id, updates) ==
    problems' = UpdateById(problems, id, updates)

\* the clock advances by one millisecond
Tick ==
    /\ now < MaxClock
    /\ now' = now + 1
    /\ UNCHANGED <<activeSection, definitions, theorems, editingDef, view, calls>>
    /\ UNCHANGED <<pipeVars, problems, targetItemId, summaries>>

\* Sidebar onNavigate(section): setActiveSection(section) and
\* setTargetItemId(null); renderSection unmounts the view of the old section
\* and mounts the view of the new one
Navigate(section) ==
    /\ section # activeSection
    /\ activeSection' = section
    /\ view' = MountView(section)
    /\ calls' = [k \in 1..Len(calls) |-> [calls[k] EXCEPT !.mounted = FALSE]]
    /\ targetItemId' = NULL
    /\ UNCHANGED <<now, definitions, theorems, editingDef>>
    /\ UNCHANGED <<pipeVars, problems, summaries>>

\* DefinitionsView: onChange of the term input
DefinitionsView_SetTerm(v) ==
    /\ activeSection = DEFINITIONS
    /\ CanAdd
    /\ view.term # v
    /\ view' = [view EXCEPT !.term = v]
    /\ UNCHANGED <<now, activeSection, definitions, theorems, editingDef, calls>>
    /\ UNCHANGED <<pipeVars, problems, targetItemId, summaries>>

\* DefinitionsView: onChange of the content textarea
DefinitionsView_SetContent(v) ==
    /\ activeSection = DEFINITIONS
    /\ CanAdd
    /\ view.content # v
    /\ view' = [view EXCEPT !.content = v]
    /\ UNCHANGED <<now, activeSection, definitions, theorems, editingDef, calls>>
    /\ UNCHANGED <<pipeVars, problems, targetItemId, summaries>>

\* DefinitionsView.handleAdd up to the await; the button is disabled while
\* isGenerating or without a term
DefinitionsView_HandleAdd ==
    /\ activeSection = DEFINITIONS
    /\ ~view.isGenerating
    /\ ~IsBlank(view.term)
    /\ ~IsBlank(view.content)
    /\ CanAdd
    /\ definitions' = <<NewDefinition(NowString)>> \o definitions
    /\ view' = [view EXCEPT !.term = "", !.content = "",
                            !.activeId = NowString, !.isGenerating = TRUE]
    /\ calls' = Append(calls, NewCall("expandDefinition", NowString))
    /\ UNCHANGED <<now, activeSection, theorems, editingDef>>
    /\ UNCHANGED <<pipeVars, problems, targetItemId, summaries>>

\* finally { setIsGenerating(false) }: without effect once the view that
\* started the call is unmounted
DefinitionsView_Finally(k) ==
    view' = IF calls[k].mounted THEN [view EXCEPT !.isGenerating = FALSE]
            ELSE view

\* DefinitionsView.handleAdd after the await, the call having succeeded
DefinitionsView_HandleAdd_Then(k, shape, importance) ==
    /\ k \in 1..Len(calls)
    /\ calls[k].kind = "expandDefinition"
    /\ UpdateDefinition(calls[k].id,
           DefinitionUpdates(DefinitionResult(calls[k].id, shape, importance)),
           calls[k].editingDef)
    /\ DefinitionsView_Finally(k)
    /\ calls' = Settled(k)
    /\ UNCHANGED <<now, activeSection, theorems>>
    /\ UNCHANGED <<pipeVars, problems, targetItemId, summaries>>

\* DefinitionsView.handleAdd after the await, the call having failed
DefinitionsView_HandleAdd_Catch(k) ==
    /\ k \in 1..Len(calls)
    /\ calls[k].kind = "expandDefinition"
    /\ UpdateDefinition(calls[k].id, DefinitionErrorUpdates, calls[k].editingDef)
    /\ DefinitionsView_Finally(k)
    /\ calls' = Settled(k)
    /\ UNCHANGED <<now, activeSection, theorems>>
    /\ UNCHANGED <<pipeVars, problems, targetItemId, summaries>>

\* DefinitionsView: click on a definition of the list
DefinitionsView_Select(id) ==
    /\ activeSection = DEFINITIONS
    /\ HasItem(definitions, id)
    /\ view.activeId # id
    /\ view' = [view EXCEPT !.activeId = id]
    /\ UNCHANGED <<now, activeSection, definitions, theorems, editingDef, calls>>
    /\ UNCHANGED <<pipeVars, problems, targetItemId, summaries>>

\* DefinitionsView: the Edit Content / Done Editing button of the active
\* definition
DefinitionsView_ToggleEditing ==
    /\ activeSection = DEFINITIONS
    /\ HasItem(definitions, view.activeId)
    /\ view' = [view EXCEPT !.isEditing = ~view.isEditing]
    /\ UNCHANGED <<now, activeSection, definitions, theorems, editingDef, calls>>
    /\ UNCHANGED <<pipeVars, problems, targetItemId, summaries>>

\* DefinitionsView: onChange of the textarea of the original definition
DefinitionsView_EditUserContent(v) ==
    /\ activeSection = DEFINITIONS
    /\ HasItem(definitions, view.activeId)
    /\ CanEdit
    /\ view.isEditing
    /\ UpdateDefinition(view.activeId, [userContent |-> v], editingDef)
    /\ UNCHANGED <<now, activeSection, theorems, view, calls>>
    /\ UNCHANGED <<pipeVars, problems, targetItemId, summaries>>

\* DefinitionsView: onChange of the textarea of the reflections
DefinitionsView_EditUserNotes(v) ==
    /\ activeSection = DEFINITIONS
    /\ HasItem(definitions, view.activeId)
    /\ CanEdit
    /\ view.isEditing
    /\ UpdateDefinition(view.activeId, [userNotes |-> v], editingDef)
    /\ UNCHANGED <<now, activeSection, theorems, view, calls>>
    /\ UNCHANGED <<pipeVars, problems, targetItemId, summaries>>

\* DefinitionsView.updateMastery(activeDef.id, level)
DefinitionsView_UpdateMastery(level) ==
    /\ activeSection = DEFINITIONS
    /\ HasItem(definitions, view.activeId)
    /\ CanEdit
    /\ UpdateDefinition(view.activeId,
           [mastery |-> level, lastReviewed |-> now], editingDef)
    /\ UNCHANGED <<now, activeSection, theorems, view, calls>>
    /\ UNCHANGED <<pipeVars, problems, targetItemId, summaries>>

\* TheoremsView shows the input form: no theorem is active
TheoremsView_FormShown ==
    activeSection = THEOREMS /\ ~HasItem(theorems, view.activeId)

\* TheoremsView: the Scan New Proof button
TheoremsView_ScanNew ==
    /\ activeSection = THEOREMS
    /\ view.activeId # NULL
    /\ view' = [view EXCEPT !.activeId = NULL]
    /\ UNCHANGED <<now, activeSection, definitions, theorems, editingDef, calls>>
    /\ UNCHANGED <<pipeVars, problems, targetItemId, summaries>>

\* TheoremsView: onChange of the name input
TheoremsView_SetName(v) ==
    /\ TheoremsView_FormShown
    /\ CanAdd
    /\ view.name # v
    /\ view' = [view EXCEPT !.name = v]
    /\ UNCHANGED <<now, activeSection, definitions, theorems, editingDef, calls>>
    /\ UNCHANGED <<pipeVars, problems, targetItemId, summaries>>

\* TheoremsView: onChange of the statement textarea
TheoremsView_SetContent(v) ==
    /\ TheoremsView_FormShown
    /\ CanAdd
    /\ view.content # v
    /\ view' = [view EXCEPT !.content = v]
    /\ UNCHANGED <<now, activeSection, definitions, theorems, editingDef, calls>>
    /\ UNCHANGED <<pipeVars, problems, targetItemId, summaries>>

\* TheoremsView.handleFileChange with a file, the read of the file being
\* over before the next event
TheoremsView_HandleFileChange(url) ==
    /\ TheoremsView_FormShown
    /\ CanAdd
    /\ view.previewUrl # url
    /\ view' = [view EXCEPT !.previewUrl = url]
    /\ UNCHANGED <<now, activeSection, definitions, theorems, editingDef, calls>>
    /\ UNCHANGED <<pipeVars, problems, targetItemId, summaries>>

\* TheoremsView.handleAnalyze up to the await; the button is disabled while
\* isAnalyzing
TheoremsView_HandleAnalyze ==
    /\ TheoremsView_FormShown
    /\ ~view.isAnalyzing
    /\ view.name # ""
    /\ view.content # ""
    /\ view.previewUrl # NULL
    /\ CanAdd
    /\ theorems' = <<NewTheorem(NowString)>> \o theorems
    /\ view' = [view EXCEPT !.activeId = NowString, !.name = "",
                            !.content = "", !.previewUrl = NULL,
                            !.isAnalyzing = TRUE]
    /\ calls' = Append(calls, NewCall("analyzeProof", NowString))
    /\ UNCHANGED <<now, activeSection, definitions, editingDef>>
    /\ UNCHANGED <<pipeVars, problems, targetItemId, summaries>>

\* finally { setIsAnalyzing(false) }: without effect once the view that
\* started the call is unmounted
TheoremsView_Finally(k) ==
    view' = IF calls[k].mounted THEN [view EXCEPT !.isAnalyzing = FALSE]
            ELSE view

\* TheoremsView.handleAnalyze after the await, the call having succeeded
TheoremsView_HandleAnalyze_Then(k, shape, importance) ==
    /\ k \in 1..Len(calls)
    /\ calls[k].kind = "analyzeProof"
    /\ UpdateTheorem(calls[k].id,
           TheoremUpdates(TheoremResult(calls[k].id, shape, importance)))
    /\ TheoremsView_Finally(k)
    /\ calls' = Settled(k)
    /\ UNCHANGED <<now, activeSection, definitions, editingDef>>
    /\ UNCHANGED <<pipeVars, problems, targetItemId, summaries>>

\* TheoremsView.handleAnalyze after the await, the call having failed
TheoremsView_HandleAnalyze_Catch(k) ==
    /\ k \in 1..Len(calls)
    /\ calls[k].kind = "analyzeProof"
    /\ UpdateTheorem(calls[k].id, TheoremErrorUpdates)
    /\ TheoremsView_Finally(k)
    /\ calls' = Settled(k)
    /\ UNCHANGED <<now, activeSection, definitions, editingDef>>
    /\ UNCHANGED <<pipeVars, problems, targetItemId, summaries>>

\* TheoremsView: click on a theorem of the list
TheoremsView_Select(id) ==
    /\ activeSection = THEOREMS
    /\ HasItem(theorems, id)
    /\ view.activeId # id
    /\ view' = [view EXCEPT !.activeId = id]
    /\ UNCHANGED <<now, activeSection, definitions, theorems, editingDef, calls>>
    /\ UNCHANGED <<pipeVars, problems, targetItemId, summaries>>

\* TheoremsView: the edit button of the active theorem
TheoremsView_ToggleEditing ==
    /\ activeSection = THEOREMS
    /\ HasItem(theorems, view.activeId)
    /\ view' = [view EXCEPT !.isEditing = ~view.isEditing]
    /\ UNCHANGED <<now, activeSection, definitions, theorems, editingDef, calls>>
    /\ UNCHANGED <<pipeVars, problems, targetItemId, summaries>>

\* TheoremsView: onChange of the textarea of the statement
TheoremsView_EditContent(v) ==
    /\ activeSection = THEOREMS
    /\ HasItem(theorems, view.activeId)
    /\ CanEdit
    /\ view.isEditing
    /\ UpdateTheorem(view.activeId, [content |-> v])
    /\ UNCHANGED <<now, activeSection, definitions, editingDef, view, calls>>
    /\ UNCHANGED <<pipeVars, problems, targetItemId, summaries>>

\* TheoremsView.updateMastery(activeTheorem.id, level)
TheoremsView_UpdateMastery(level) ==
    /\ activeSection = THEOREMS
    /\ HasItem(theorems, view.activeId)
    /\ CanEdit
    /\ UpdateTheorem(view.activeId, [mastery |-> level, lastReviewed |-> now])
    /\ UNCHANGED <<now, activeSection, definitions, editingDef, view, calls>>
    /\ UNCHANGED <<pipeVars, problems, targetItemId, summaries>>

\* an AI call settles
Settle(k) ==
    \/ \E shape \in JsonShapes, importance \in AiImportance :
           DefinitionsView_HandleAdd_Then(k, shape, importance)
    \/ DefinitionsView_HandleAdd_Catch(k)
    \/ \E shape \in JsonShapes, importance \in AiImportance :
           TheoremsView_HandleAnalyze_Then(k, shape, importance)
    \/ TheoremsView_HandleAnalyze_Catch(k)

InitApp == PipeIdle /\ AppStart

NextApp ==
    \/ Tick
    \/ \E section \in NavSections : Navigate(section)
    \/ \E v \in Terms : DefinitionsView_SetTerm(v)
    \/ \E v \in DefinitionTexts : DefinitionsView_SetContent(v)
    \/ DefinitionsView_HandleAdd
    \/ \E id \in RecordIds : DefinitionsView_Select(id)
    \/ DefinitionsView_ToggleEditing
    \/ \E v \in EditedTexts : DefinitionsView_EditUserContent(v)
    \/ \E v \in Notes : DefinitionsView_EditUserNotes(v)
    \/ \E level \in MasteryChoices : DefinitionsView_UpdateMastery(level)
    \/ TheoremsView_ScanNew
    \/ \E v \in Names : TheoremsView_SetName(v)
    \/ \E v \in Statements : TheoremsView_SetContent(v)
    \/ \E url \in PreviewUrls : TheoremsView_HandleFileChange(url)
    \/ TheoremsView_HandleAnalyze
    \/ \E id \in RecordIds : TheoremsView_Select(id)
    \/ TheoremsView_ToggleEditing
    \/ \E v \in EditedStatements : TheoremsView_EditContent(v)
    \/ \E level \in MasteryChoices : TheoremsView_UpdateMastery(level)
    \/ \E k \in 1..MaxRecords : Settle(k)

SpecApp == InitApp /\ [][NextApp]_vars

\* every AI call eventually resolves or rejects
SpecAppFair ==
    SpecApp /\ \A k \in 1..MaxRecords : WF_vars(Settle(k))

-----------------------------------------------------------------------------
(* Properties of the App collections, checked under SpecApp *)

\* the fields that the AI call of a definition populates
DefinitionAiFields ==
    {"aiContentEn", "aiContentZh", "funAnalogy", "chapterConnection",
     "uclImportance", "relatedExtensions", "flashcardSummary"}

\* the fields that the AI call of a theorem populates
TheoremAiFields ==
    {"proofSteps", "logicMapping", "correctedName", "concreteExample",
     "flashcardSummary", "uclImportance"}

\* C16 as stated: while a definition or theorem is loading, every field that
\* the AI call populates is null.
C16_AiFieldsNullWhileLoading ==
    /\ \A i \in 1..Len(definitions) :
           definitions[i].isLoading
           => \A f \in DefinitionAiFields : definitions[i][f] = NULL
    /\ \A i \in 1..Len(theorems) :
           theorems[i].isLoading
           => \A f \in TheoremAiFields : theorems[i][f] = NULL

\* C16 amended: while a definition or theorem is loading, every field that
\* the AI call populates is null, except uclImportance, which holds the
\* default 'Medium'.
C16_AiTextsNullWhileLoading ==
    /\ \A i \in 1..Len(definitions) :
           definitions[i].isLoading
           => /\ \A f \in DefinitionAiFields \ {"uclImportance"} :
                     definitions[i][f] = NULL
              /\ definitions[i].uclImportance = "Medium"
    /\ \A i \in 1..Len(theorems) :
           theorems[i].isLoading
           => /\ \A f \in TheoremAiFields \ {"uclImportance"} :
                     theorems[i][f] = NULL
              /\ theorems[i].uclImportance = "Medium"

\* C16 witness: a definition that the user has edited is still loading
\* while the call of another record has failed
C16_Witness ==
    /\ \E i \in 1..Len(definitions) :
           /\ definitions[i].isLoading
           /\ definitions[i].userNotes # NULL
    /\ \E i \in 1..Len(theorems) : theorems[i].proofSteps = ERROR_ANALYZING

\* the collection after, which is before with record i carrying the error
\* text in field and a reset flag, and nothing else changed
OnlyErrorSet(before, after, i, field, errorText) ==
    after = [before EXCEPT ![i] = [@ EXCEPT ![field] = errorText,
                                            !.isLoading = FALSE]]

\* C17: when the AI call of a record fails, the record stays in its
\* collection with isLoading false and the error text in its primary AI
\* field; no other field of it and no other record changes.
C17_FailureFrame ==
    [][\A k \in 1..Len(calls) :
        /\ DefinitionsView_HandleAdd_Catch(k)
           => /\ \E i \in 1..Len(definitions) :
                     /\ definitions[i].id = calls[k].id
                     /\ OnlyErrorSet(definitions, definitions', i,
                                     "aiContentEn", ERROR_GENERATING)
              /\ theorems' = theorems
        /\ TheoremsView_HandleAnalyze_Catch(k)
           => /\ \E i \in 1..Len(theorems) :
                     /\ theorems[i].id = calls[k].id
                     /\ OnlyErrorSet(theorems, theorems', i,
                                     "proofSteps", ERROR_ANALYZING)
              /\ definitions' = definitions]_vars

\* the j-th record that was added to items: records are added in front
Added(items, j) == items[Len(items) - j + 1]

\* the flag isGenerating, resp. isAnalyzing, of the mounted view is set
IsGenerating == activeSection = DEFINITIONS /\ view.isGenerating
IsAnalyzing == activeSection = THEOREMS /\ view.isAnalyzing

\* C18: if every AI call settles, every record that is loading is
\* eventually not loading, and a view flag isGenerating or isAnalyzing that
\* is set is eventually not set, whatever the user navigates to meanwhile.
C18_EventuallyLoaded ==
    /\ \A j \in 1..MaxRecords :
           (Len(definitions) >= j /\ Added(definitions, j).isLoading)
           ~> (Len(definitions) >= j /\ ~Added(definitions, j).isLoading)
    /\ \A j \in 1..MaxRecords :
           (Len(theorems) >= j /\ Added(theorems, j).isLoading)
           ~> (Len(theorems) >= j /\ ~Added(theorems, j).isLoading)
    /\ IsGenerating ~> ~IsGenerating
    /\ IsAnalyzing ~> ~IsAnalyzing

\* C18 witness: no call is awaited, the views that started the calls are
\* unmounted, and a definition and a theorem have left the loading state
C18_Witness ==
    /\ activeSection = REVIEW
    /\ calls = <<>>
    /\ \E i \in 1..Len(definitions) : ~definitions[i].isLoading
    /\ \E i \in 1..Len(theorems) : ~theorems[i].isLoading

\* record i is the only record of items with its id
UniqueId(items, i) ==
    \A j \in 1..Len(items) : j # i => items[j].id # items[i].id

\* the AI fields and the flag of record d are those of a new record after
\* updates and nothing else
Carries(d, updates, aiFields) ==
    \A f \in aiFields \cup {"isLoading"} :
        d[f] = IF f \in DOMAIN updates THEN updates[f]
               ELSE IF f = "uclImportance" THEN "Medium" ELSE NULL

\* a call of kind is awaited for record id
Awaited(kind, id) ==
    \E k \in 1..Len(calls) : calls[k].kind = kind /\ calls[k].id = id

\* every record whose id no other record has is loading while its call is
\* awaited, and afterwards carries one outcome of the call made for its id
OwnResults ==
    /\ \A i \in 1..Len(definitions) :
           UniqueId(definitions, i)
           => LET d == definitions[i] IN
              IF d.isLoading THEN Awaited("expandDefinition", d.id)
              ELSE \/ \E shape \in JsonShapes, importance \in AiImportance :
                          Carries(d, DefinitionUpdates(
                                         DefinitionResult(d.id, shape, importance)),
                                  DefinitionAiFields)
                   \/ Carries(d, DefinitionErrorUpdates, DefinitionAiFields)
    /\ \A i \in 1..Len(theorems) :
           UniqueId(theorems, i)
           => LET t == theorems[i] IN
              IF t.isLoading THEN Awaited("analyzeProof", t.id)
              ELSE \/ \E shape \in JsonShapes, importance \in AiImportance :
                          Carries(t, TheoremUpdates(
                                         TheoremResult(t.id, shape, importance)),
                                  TheoremAiFields)
                   \/ Carries(t, TheoremErrorUpdates, TheoremAiFields)

\* the step leaves what the user entered in every record as it was
UserFieldsKept ==
    /\ Len(definitions') = Len(definitions)
    /\ \A i \in 1..Len(definitions) :
           \A f \in {"userContent", "userNotes", "mastery"} :
               definitions'[i][f] = definitions[i][f]
    /\ Len(theorems') = Len(theorems)
    /\ \A i \in 1..Len(theorems) :
           \A f \in {"content", "userNotes", "mastery"} :
               theorems'[i][f] = theorems[i][f]

\* C19: with AI calls awaited at once for records of different ids, each
\* record gets the outcome of the call made for its own id, whatever the
\* order in which the calls settle, and a settling call leaves the user's
\* edits of userContent, userNotes, content and mastery in place.
C19_OwnResultsEditsKept ==
    [][/\ OwnResults'
       /\ Len(calls') < Len(calls) => UserFieldsKept]_vars

\* C19 witness: of two definitions with different ids, the call made for the
\* newer one has resolved first, and the newer definition holds its own
\* result and the user's edit
C19_Witness ==
    /\ Len(definitions) = 2
    /\ definitions[1].id # definitions[2].id
    /\ definitions[2].isLoading
    /\ ~definitions[1].isLoading
    /\ definitions[1].aiContentEn =
           DefinitionResult(definitions[1].id, "complete", "High").ai_content_en
    /\ definitions[1].userContent \in EditedTexts

-----------------------------------------------------------------------------
(* The collection callbacks of App, called with any arguments *)

\* the sections whose views add and update records
UpdateSections == {DEFINITIONS, THEOREMS, EXERCISES}

\* the view of a section with its form filled in
FilledView(section) ==
    IF section = DEFINITIONS
    THEN [DefinitionsViewInit EXCEPT !.term = CHOOSE v \in Terms : TRUE,
                                     !.content = CHOOSE v \in DefinitionTexts : TRUE]
    ELSE IF section = THEOREMS
    THEN [TheoremsViewInit EXCEPT !.name = CHOOSE v \in Names : TRUE,
                                  !.content = CHOOSE v \in Statements : TRUE,
                                  !.previewUrl = CHOOSE v \in PreviewUrls : TRUE]
    ELSE MountView(section)

\* an object generateAiProblem returns
ProblemResult ==
    [content |-> "problem text", summary |-> "problem summary",
     steps |-> <<"step 1", "step 2">>, knowledgePoints |-> <<"Limit">>,
     difficulty |-> "UCL 2:1"]

\* the record newProblem of handleGenerate, built from the state form that
\* the handler closed over
GeneratedProblem(form, newId, result) ==
    [id |-> newId, createdAt |-> now, subjectId |-> form.subject,
     chapterId |-> form.chapter, source |-> "ai", content |-> result.content,
     originalImages |-> NULL, summary |-> result.summary,
     steps |-> result.steps, knowledgePoints |-> result.knowledgePoints,
     uclDifficulty |-> result.difficulty, userAnswer |-> NULL,
     solutionImages |-> NULL, struggleNote |-> NULL, struggleImages |-> NULL,
     isSolved |-> FALSE, isWrong |-> FALSE, mastery |-> 1]

\* the record newProblem of handleGenerate
NewProblem(newId, result) == GeneratedProblem(view, newId, result)

\* the stars the user clicks: below, at and above the level of review
MasteryLevels == {2, 3, 4}

\* the ids the callbacks are called with: those of records, and one that
\* no record has
UpdateIds == RecordIds \cup {"0"}

\* the updates the views pass to onUpdateItem
DefinitionUpdateSamples ==
    {[mastery |-> level, lastReviewed |-> now] : level \in MasteryLevels}
    \cup {[userContent |-> v] : v \in EditedTexts}
    \cup {DefinitionErrorUpdates}
    \cup {DefinitionUpdates(DefinitionResult(id, "complete", importance)) :
             id \in RecordIds, importance \in AiImportance}

TheoremUpdateSamples ==
    {[mastery |-> level, lastReviewed |-> now] : level \in MasteryLevels}
    \cup {[content |-> v] : v \in EditedStatements}
    \cup {TheoremErrorUpdates}
    \cup {TheoremUpdates(TheoremResult(id, "complete", importance)) :
             id \in RecordIds, importance \in AiImportance}

ProblemUpdateSamples ==
    {[mastery |-> level] : level \in MasteryLevels}
    \cup {[isSolved |-> TRUE]}
    \cup {[isWrong |-> TRUE, struggleNote |-> v, struggleImages |-> NO_IMAGES] :
             v \in Notes}

\* App.addDefinition(item), called by DefinitionsView
OnAddDefinition(item) ==
    /\ activeSection = DEFINITIONS
    /\ Len(definitions) < MaxItems
    /\ definitions' = <<item>> \o definitions
    /\ UNCHANGED <<now, activeSection, theorems, problems, editingDef, view,
                   calls>>
    /\ UNCHANGED <<pipeVars, targetItemId, summaries>>

\* App.addTheorem(item), called by TheoremsView
OnAddTheorem(item) ==
    /\ activeSection = THEOREMS
    /\ Len(theorems) < MaxItems
    /\ theorems' = <<item>> \o theorems
    /\ UNCHANGED <<now, activeSection, definitions, problems, editingDef,
                   view, calls>>
    /\ UNCHANGED <<pipeVars, targetItemId, summaries>>

\* App.addProblem(item), called by ExercisesView
OnAddProblem(item) ==
    /\ activeSection = EXERCISES
    /\ Len(problems) < MaxItems
    /\ problems' = <<item>> \o problems
    /\ UNCHANGED <<now, activeSection, definitions, theorems, editingDef,
                   view, calls>>
    /\ UNCHANGED <<pipeVars, targetItemId, summaries>>

\* App.updateDefinition(id, updates), called by DefinitionsView
OnUpdateDefinition(id, updates) ==
    /\ activeSection = DEFINITIONS
    /\ UpdateDefinition(id, updates, editingDef)
    /\ UNCHANGED <<now, activeSection, theorems, problems, view, calls>>
    /\ UNCHANGED <<pipeVars, targetItemId, summaries>>

\* App.updateTheorem(id, updates), called by TheoremsView
OnUpdateTheorem(id, updates) ==
    /\ activeSection = THEOREMS
    /\ UpdateTheorem(id, updates)
    /\ UNCHANGED <<now, activeSection, definitions, problems, editingDef,
                   view, calls>>
    /\ UNCHANGED <<pipeVars, targetItemId, summaries>>

\* App.updateProblem(id, updates), called by ExercisesView
OnUpdateProblem(id, updates) ==
    /\ activeSection = EXERCISES
    /\ UpdateProblem(id, updates)
    /\ UNCHANGED <<now, activeSection, definitions, theorems, editingDef,
                   view, calls>>
    /\ UNCHANGED <<pipeVars, targetItemId, summaries>>

InitUpdate ==
    /\ PipeIdle
    /\ now = 1
    /\ activeSection \in UpdateSections
    /\ definitions = <<>>
    /\ theorems = <<>>
    /\ problems = <<>>
    /\ editingDef = <<>>
    /\ view = FilledView(activeSection)
    /\ calls = <<>>
    /\ targetItemId = NULL
    /\ summaries = <<>>

NextUpdate ==
    \/ \E id \in RecordIds : OnAddDefinition(NewDefinition(id))
    \/ \E id \in RecordIds : OnAddTheorem(NewTheorem(id))
    \/ \E id \in RecordIds : OnAddProblem(NewProblem(id, ProblemResult))
    \/ \E id \in UpdateIds, updates \in DefinitionUpdateSamples :
           OnUpdateDefinition(id, updates)
    \/ \E id \in UpdateIds, updates \in TheoremUpdateSamples :
           OnUpdateTheorem(id, updates)
    \/ \E id \in UpdateIds, updates \in ProblemUpdateSamples :
           OnUpdateProblem(id, updates)

SpecUpdate == InitUpdate /\ [][NextUpdate]_vars

\* after is before with the fields named in updates set in every record
\* whose id is id, and nothing else changed
UpdateFrame(before, after, id, updates) ==
    /\ Len(after) = Len(before)
    /\ \A i \in 1..Len(before) :
           IF before[i].id = id
           THEN /\ DOMAIN after[i] = DOMAIN before[i]
                /\ \A f \in DOMAIN before[i] :
                       after[i][f] = IF f \in DOMAIN updates THEN updates[f]
                                     ELSE before[i][f]
           ELSE after[i] = before[i]
    /\ ~HasItem(before, id) => after = before

\* C20: updateDefinition, updateTheorem and updateProblem change only the
\* fields named in updates, only in the record whose id matches; every other
\* field and record, the length and the order of the collection stay as they
\* were, and with an id that no record has the collection is unchanged.
C20_UpdateFrame ==
    [][\A id \in UpdateIds :
        /\ \A updates \in DefinitionUpdateSamples :
               OnUpdateDefinition(id, updates)
               => UpdateFrame(definitions, definitions', id, updates)
        /\ \A updates \in TheoremUpdateSamples :
               OnUpdateTheorem(id, updates)
               => UpdateFrame(theorems, theorems', id, updates)
        /\ \A updates \in ProblemUpdateSamples :
               OnUpdateProblem(id, updates)
               => UpdateFrame(problems, problems', id, updates)]_vars

\* C20 witness: of two problems with different ids, the older one has been
\* updated twice and the newer one is as it was added
C20_Witness ==
    /\ Len(problems) = 2
    /\ problems[1].id # problems[2].id
    /\ problems[2].isSolved /\ problems[2].mastery # 1
    /\ problems[1] = NewProblem(problems[1].id, ProblemResult)

-----------------------------------------------------------------------------
(* cleanJsonText and cleanMathString (src/services/geminiService.ts) *)

\* a text argument that is undefined
ABSENT == <<"UNDEFINED">>

\* !text
IsFalsy(t) == t = <<>> \/ t = ABSENT

\* s.replace(/^```(?:json)?\n?/, ""): without the m flag, ^ is the start of
\* the text
StripOpeningFence(s) ==
    IF ~StartsAt(s, 1, FENCE) THEN s
    ELSE LET a == IF StartsAt(s, 4, W_json) THEN 4 + Len(W_json) ELSE 4
             b == IF a <= Len(s) /\ s[a] = NL THEN a + 1 ELSE a
         IN  SubSeq(s, b, Len(s))

\* s.replace(/\n?```$/, ""): without the m flag, $ is the end of the text
StripClosingFence(s) ==
    LET q == Len(s) - 2
    IN  IF ~StartsAt(s, q, FENCE) THEN s
        ELSE IF q > 1 /\ s[q - 1] = NL THEN SubSeq(s, 1, q - 2)
        ELSE SubSeq(s, 1, q - 1)

\* cleanJsonText(text)
CleanJsonText(t) ==
    IF IsFalsy(t) THEN <<"{", "}">>
    ELSE Trim(StripClosingFence(StripOpeningFence(t)))

\* cleanMathString(text)
CleanMathString(t) ==
    IF IsFalsy(t) THEN <<>>
    ELSE ReplaceAll("fenceCMS", t, <<DOLLAR, "1">>)

\* JSON documents
JsonDocs == {<<"{", "}">>, <<"[", "1", "]">>}

\* white space around a response
Pads == SeqsUpTo({SP, NL}, MaxPad)

\* the fence lines a response is wrapped in
JsonOpenings == {FENCE \o tag \o nl : tag \in {<<>>, W_json}, nl \in {<<>>, <<NL>>}}
JsonClosings == {nl \o FENCE : nl \in {<<>>, <<NL>>}}

\* document wrapped in a fence, with white space around the fence
Fenced(before, opening, document, closing, after) ==
    before \o opening \o document \o closing \o after

\* the responses given to cleanJsonText
JsonResponses ==
    JsonDocs
    \cup {Fenced(before, opening, document, closing, after) :
              before \in Pads, opening \in JsonOpenings, document \in JsonDocs,
              closing \in JsonClosings, after \in Pads}

\* the pieces the texts given to cleanMathString are built from
MathPieces == {FENCE, <<BT, BT>>, <<NL>>, <<"x">>}

MathTexts ==
    {Concat(ps) : ps \in SeqsUpTo(MathPieces, MaxMathPieces)}
    \cup {FENCE \o tag \o <<NL, "x", NL>> \o FENCE :
              tag \in {W_latex, W_math, W_markdown}}

InitGS ==
    /\ pc = "gs_start"
    /\ text \in JsonResponses \cup MathTexts \cup {<<>>, ABSENT}
    /\ hasMarked = FALSE
    /\ clean = <<>>
    /\ mathBlocks = <<>>
    /\ html = <<>>
    /\ cleaned = <<>>
    /\ formatted = <<>>
    /\ AppStart

\* cleanJsonText(text); clean holds what it returns
CleanJsonText_Call ==
    /\ pc = "gs_start"
    /\ clean' = CleanJsonText(text)
    /\ pc' = "gs_json"
    /\ UNCHANGED <<text, hasMarked, mathBlocks, html, cleaned, formatted>>
    /\ UNCHANGED appVars

\* cleanMathString(text); clean holds what it returns
CleanMathString_Call ==
    /\ pc = "gs_start"
    /\ clean' = CleanMathString(text)
    /\ pc' = "gs_math"
    /\ UNCHANGED <<text, hasMarked, mathBlocks, html, cleaned, formatted>>
    /\ UNCHANGED appVars

\* cleanMathString applied to what cleanMathString returned
CleanMathString_Again ==
    /\ pc = "gs_math"
    /\ cleaned' = CleanMathString(clean)
    /\ pc' = "gs_math2"
    /\ UNCHANGED <<text, hasMarked, clean, mathBlocks, html, formatted>>
    /\ UNCHANGED appVars

NextGS ==
    \/ CleanJsonText_Call
    \/ CleanMathString_Call
    \/ CleanMathString_Again

SpecGS == InitGS /\ [][NextGS]_vars

\* C23: cleanJsonText returns the document of a response that wraps it in a
\* fence with or without the json tag, also with white space before or after
\* the fence, and returns "{}" for an empty or absent response.
C23_FenceStripped ==
    pc = "gs_json"
    => /\ IsFalsy(text) => clean = <<"{", "}">>
       /\ \A before \in Pads, opening \in JsonOpenings, document \in JsonDocs,
             closing \in JsonClosings, after \in Pads :
              text = Fenced(before, opening, document, closing, after)
              => clean = document

\* C24: what cleanMathString returns holds no complete fenced block, that
\* is, cleanMathString returns it unchanged; for an empty or absent text it
\* returns the empty text.
C24_NoFenceLeft ==
    pc = "gs_math2"
    => /\ cleaned = clean
       /\ \A i \in 1..Len(clean) : ~FenceCMSAt(clean, i).ok
       /\ IsFalsy(text) => clean = <<>>


-----------------------------------------------------------------------------
(* ExercisesView (src/views/ExercisesView.tsx), opened from the Sidebar or *)
(* through the deep links of ReviewView (src/unnamed/part_002)             *)

\* the sections of this part of the model
ExerciseSections == {EXERCISES, REVIEW}
\* the tabs of ReviewView
ReviewTabs == {"definitions", "theorems", "mistakes"}
\* the modes of ExercisesView
Modes == {"ai", "user"}
\* what the user pastes as the text of a problem
ProblemTexts == {"pasted problem"}
\* what the user types as the answer
Answers == {"my answer"}

\* items.find(i => i.id === id), for an id that a record has
Find(items, id) ==
    items[CHOOSE i \in 1..Len(items) :
              /\ items[i].id = id
              /\ \A j \in 1..(i - 1) : items[j].id # id]

\* x || ''
OrEmpty(x) == IF x \in {NULL, UNDEFINED, ""} THEN "" ELSE x

\* the object generateAiProblem returns when the JSON answer is "{}"
ProblemResult_Empty(difficultyLevel) ==
    [content |-> "", summary |-> "Math Problem", steps |-> <<>>,
     knowledgePoints |-> <<>>, difficulty |-> difficultyLevel]

\* the object generateAiProblem returns
GenerateResult(shape, difficultyLevel) ==
    IF shape = "complete" THEN ProblemResult
    ELSE ProblemResult_Empty(difficultyLevel)

\* the object solveUserProblem returns
SolveResult(shape) ==
    IF shape = "complete"
    THEN [steps |-> <<"step 1", "step 2">>, knowledgePoints |-> <<"Limit">>,
          summary |-> "problem summary",
          problem_transcription |-> "transcribed problem"]
    ELSE [steps |-> <<>>, knowledgePoints |-> <<>>,
          summary |-> "Solved Problem", problem_transcription |-> ""]

\* the record newProblem of handleSolveUser, built from the state form that
\* the handler closed over
SolvedProblem(form, newId, result) ==
    [id |-> newId, createdAt |-> now, subjectId |-> form.subject,
     chapterId |-> form.chapter, source |-> "user",
     content |-> IF result.problem_transcription # ""
                 THEN result.problem_transcription
                 ELSE IF form.userProblemText # "" THEN form.userProblemText
                 ELSE "Problem from Image",
     originalImages |-> NULL, summary |-> result.summary,
     steps |-> result.steps, knowledgePoints |-> result.knowledgePoints,
     uclDifficulty |-> "Self-Assigned",
     userAnswer |-> form.currentUserAnswer, solutionImages |-> NULL,
     struggleNote |-> NULL, struggleImages |-> NULL,
     isSolved |-> FALSE, isWrong |-> FALSE, mastery |-> 1]

\* an AI call of ExercisesView that is awaited: the id of the record is
\* taken after the await, and form is the state the handler closed over
ExerciseCall(kind) ==
    [kind |-> kind, id |-> NULL, mounted |-> TRUE, editingDef |-> editingDef,
     form |-> view]

\* the problems that exist or are being generated are fewer than MaxRecords
CanGenerate == Len(problems) + Len(calls) < MaxRecords

\* currentProblem of the render
HasCurrentProblem ==
    activeSection = EXERCISES /\ HasItem(problems, view.currentProblemId)
CurrentProblem == Find(problems, view.currentProblemId)

\* the useEffect of ExercisesView on [initialActiveId, items], with
\* initialActiveId = target: the state v of the view after it has run
DeepLinkEffect(v, items, target) ==
    IF target # NULL /\ HasItem(items, target)
    THEN [v EXCEPT !.currentProblemId = target,
                   !.visibleStepIndex = Len(Find(items, target).steps),
                   !.currentUserAnswer = OrEmpty(Find(items, target).userAnswer)]
    ELSE v

\* the state of the view that renderSection mounts for a section, once the
\* effects of the mount have run
MountViewAt(section, target) ==
    IF section = EXERCISES
    THEN DeepLinkEffect(ExercisesViewInit, problems, target)
    ELSE IF section \in {DEFINITIONS, THEOREMS} /\ target # NULL
    THEN [MountView(section) EXCEPT !.activeId = target]
    ELSE MountView(section)

\* the state of the view after a render with the new array items: in
\* ExercisesView the effect runs again, whoever changed the array
AfterItemsChange(v, items) ==
    IF activeSection = EXERCISES THEN DeepLinkEffect(v, items, targetItemId)
    ELSE v

\* the views of the handlers that are awaited are unmounted
Unmounted == [k \in 1..Len(calls) |-> [calls[k] EXCEPT !.mounted = FALSE]]

\* Sidebar onNavigate(activeSection) after a deep link: the view stays
\* mounted and its initialActiveId becomes null
Sidebar_Reselect ==
    /\ targetItemId # NULL
    /\ targetItemId' = NULL
    /\ UNCHANGED <<now, activeSection, definitions, theorems, problems,
                   editingDef, view, calls, summaries>>
    /\ UNCHANGED pipeVars

\* faulty variant of HandleNavigateToItem: the target is not recorded
HandleNavigateToItem_NoTarget(section, id) ==
    /\ activeSection' = section
    /\ view' = MountViewAt(section, targetItemId)
    /\ calls' = Unmounted
    /\ UNCHANGED <<now, definitions, theorems, problems, editingDef,
                   targetItemId, summaries>>
    /\ UNCHANGED pipeVars

\* App.handleNavigateToItem(section, id), called by ReviewView
HandleNavigateToItem(section, id) ==
    /\ targetItemId' = id
    /\ activeSection' = section
    /\ view' = MountViewAt(section, id)
    /\ calls' = Unmounted
    /\ UNCHANGED <<now, definitions, theorems, problems, editingDef, summaries>>
    /\ UNCHANGED pipeVars

\* faulty variant of IsWeak: mastery 3 is not weak
IsWeak_Below3(d) == d.mastery < 3 \/ d.uclImportance = "High"

\* ReviewView: the lists of the three tabs
IsWeak(d) == d.mastery <= 3 \/ d.uclImportance = "High"
WeakDefinitions == SelectSeq(definitions, IsWeak)
WeakTheorems == SelectSeq(theorems, IsWeak)
IsWrong(p) == p.isWrong
WrongProblems == SelectSeq(problems, IsWrong)

\* ReviewView: click on a tab
ReviewView_SetActiveTab(tab) ==
    /\ activeSection = REVIEW
    /\ view.activeTab # tab
    /\ view' = [view EXCEPT !.activeTab = tab]
    /\ UNCHANGED <<now, activeSection, definitions, theorems, problems,
                   editingDef, calls, targetItemId, summaries>>
    /\ UNCHANGED pipeVars

\* ReviewView: Full Details on a card of the definitions tab
ReviewView_OpenDefinition(id) ==
    /\ activeSection = REVIEW
    /\ view.activeTab = "definitions"
    /\ HasItem(WeakDefinitions, id)
    /\ HandleNavigateToItem(DEFINITIONS, id)

\* ReviewView: View Proof on a card of the theorems tab
ReviewView_OpenTheorem(id) ==
    /\ activeSection = REVIEW
    /\ view.activeTab = "theorems"
    /\ HasItem(WeakTheorems, id)
    /\ HandleNavigateToItem(THEOREMS, id)

\* ReviewView: Retake Problem on a card of the mistakes tab
ReviewView_RetakeProblem(id) ==
    /\ activeSection = REVIEW
    /\ view.activeTab = "mistakes"
    /\ HasItem(WrongProblems, id)
    /\ HandleNavigateToItem(EXERCISES, id)

\* ExercisesView: the Generate Question / Solve Mine buttons
ExercisesView_SetMode(m) ==
    /\ activeSection = EXERCISES
    /\ view.mode # m
    /\ view' = [view EXCEPT !.mode = m]
    /\ UNCHANGED <<now, activeSection, definitions, theorems, problems,
                   editingDef, calls, targetItemId, summaries>>
    /\ UNCHANGED pipeVars

\* ExercisesView: onChange of the problem text input
ExercisesView_SetUserProblemText(v) ==
    /\ activeSection = EXERCISES
    /\ view.mode = "user"
    /\ CanGenerate
    /\ view.userProblemText # v
    /\ view' = [view EXCEPT !.userProblemText = v]
    /\ UNCHANGED <<now, activeSection, definitions, theorems, problems,
                   editingDef, calls, targetItemId, summaries>>
    /\ UNCHANGED pipeVars

\* resetStruggleForm()
ResetStruggleForm(v) ==
    [v EXCEPT !.showStruggleForm = FALSE, !.struggleNote = ""]

\* ExercisesView.handleGenerate up to the await
ExercisesView_HandleGenerate ==
    /\ activeSection = EXERCISES
    /\ view.mode = "ai"
    /\ ~view.isLoading
    /\ CanGenerate
    /\ view' = ResetStruggleForm(
                   [view EXCEPT !.isLoading = TRUE, !.currentProblemId = NULL,
                                !.visibleStepIndex = -1,
                                !.currentUserAnswer = ""])
    /\ calls' = Append(calls, ExerciseCall("generateAiProblem"))
    /\ UNCHANGED <<now, activeSection, definitions, theorems, problems,
                   editingDef, targetItemId, summaries>>
    /\ UNCHANGED pipeVars

\* ExercisesView.handleSolveUser up to the await
ExercisesView_HandleSolveUser ==
    /\ activeSection = EXERCISES
    /\ view.mode = "user"
    /\ ~view.isLoading
    /\ CanGenerate
    /\ view.userProblemText # ""
    /\ view' = ResetStruggleForm(
                   [view EXCEPT !.isLoading = TRUE, !.currentProblemId = NULL,
                                !.visibleStepIndex = -1])
    /\ calls' = Append(calls, ExerciseCall("solveUserProblem"))
    /\ UNCHANGED <<now, activeSection, definitions, theorems, problems,
                   editingDef, targetItemId, summaries>>
    /\ UNCHANGED pipeVars

\* onAddItem(newProblem); setCurrentProblemId(newProblem.id); finally
\* setIsLoading(false); then the render with the new array.  The setters of
\* a handler whose view is unmounted are without effect.
AddedProblem(k, newProblem, reset) ==
    /\ problems' = <<newProblem>> \o problems
    /\ view' = AfterItemsChange(
                   IF ~calls[k].mounted THEN view
                   ELSE IF reset
                   THEN [view EXCEPT !.currentProblemId = newProblem.id,
                                     !.isLoading = FALSE,
                                     !.userProblemText = ""]
                   ELSE [view EXCEPT !.currentProblemId = newProblem.id,
                                     !.isLoading = FALSE],
                   <<newProblem>> \o problems)
    /\ calls' = Settled(k)

\* catch { console.error(error) } finally { setIsLoading(false) }
NoProblem(k) ==
    /\ view' = IF calls[k].mounted THEN [view EXCEPT !.isLoading = FALSE]
               ELSE view
    /\ calls' = Settled(k)

\* ExercisesView.handleGenerate after the await, the call having succeeded
ExercisesView_HandleGenerate_Then(k, shape) ==
    /\ k \in 1..Len(calls)
    /\ calls[k].kind = "generateAiProblem"
    /\ AddedProblem(k, GeneratedProblem(calls[k].form, NowString,
                           GenerateResult(shape, calls[k].form.difficulty)),
                    FALSE)
    /\ UNCHANGED <<now, activeSection, definitions, theorems, editingDef,
                   targetItemId, summaries>>
    /\ UNCHANGED pipeVars

\* ExercisesView.handleGenerate after the await, the call having failed
ExercisesView_HandleGenerate_Catch(k) ==
    /\ k \in 1..Len(calls)
    /\ calls[k].kind = "generateAiProblem"
    /\ NoProblem(k)
    /\ UNCHANGED <<now, activeSection, definitions, theorems, problems,
                   editingDef, targetItemId, summaries>>
    /\ UNCHANGED pipeVars

\* ExercisesView.handleSolveUser after the await, the call having succeeded
ExercisesView_HandleSolveUser_Then(k, shape) ==
    /\ k \in 1..Len(calls)
    /\ calls[k].kind = "solveUserProblem"
    /\ AddedProblem(k, SolvedProblem(calls[k].form, NowString,
                                     SolveResult(shape)), TRUE)
    /\ UNCHANGED <<now, activeSection, definitions, theorems, editingDef,
                   targetItemId, summaries>>
    /\ UNCHANGED pipeVars

\* ExercisesView.handleSolveUser after the await, the call having failed
ExercisesView_HandleSolveUser_Catch(k) ==
    /\ k \in 1..Len(calls)
    /\ calls[k].kind = "solveUserProblem"
    /\ NoProblem(k)
    /\ UNCHANGED <<now, activeSection, definitions, theorems, problems,
                   editingDef, targetItemId, summaries>>
    /\ UNCHANGED pipeVars

\* onUpdateItem(id, updates) of ExercisesView, and the render with the new
\* array, the view being v once the setters of the handler have run
UpdateItem(id, updates, v) ==
    /\ UpdateProblem(id, updates)
    /\ view' = AfterItemsChange(v, UpdateById(problems, id, updates))
    /\ UNCHANGED <<now, activeSection, definitions, theorems, editingDef,
                   calls, targetItemId, summaries>>
    /\ UNCHANGED pipeVars

\* the Show Step button is rendered
ShowStepRendered ==
    /\ HasCurrentProblem
    /\ view.visibleStepIndex < Len(CurrentProblem.steps) - 1

\* the updates of the second branch of showNextStep
SolvedUpdates == [isSolved |-> TRUE]

\* ExercisesView.showNextStep(), the onClick of the Show Step button
ExercisesView_ShowNextStep ==
    /\ ShowStepRendered
    /\ IF view.visibleStepIndex < Len(CurrentProblem.steps) - 1
       THEN /\ view' = [view EXCEPT !.visibleStepIndex = @ + 1]
            /\ UNCHANGED <<now, activeSection, definitions, theorems,
                           problems, editingDef, calls, targetItemId,
                           summaries>>
            /\ UNCHANGED pipeVars
       ELSE IF view.visibleStepIndex = Len(CurrentProblem.steps) - 1
       THEN UpdateItem(CurrentProblem.id, SolvedUpdates, view)
       ELSE UNCHANGED vars

\* ExercisesView: click on a problem of Recent Problems
ExercisesView_SelectHistory(id) ==
    /\ activeSection = EXERCISES
    /\ HasItem(problems, id)
    /\ view' = [view EXCEPT
                   !.currentProblemId = id,
                   !.visibleStepIndex = Len(Find(problems, id).steps),
                   !.currentUserAnswer = OrEmpty(Find(problems, id).userAnswer)]
    /\ view' # view
    /\ UNCHANGED <<now, activeSection, definitions, theorems, problems,
                   editingDef, calls, targetItemId, summaries>>
    /\ UNCHANGED pipeVars

\* ExercisesView: onChange of the textarea of the answer
ExercisesView_SetCurrentUserAnswer(v) ==
    /\ HasCurrentProblem
    /\ view.currentUserAnswer # v
    /\ view' = [view EXCEPT !.currentUserAnswer = v]
    /\ UNCHANGED <<now, activeSection, definitions, theorems, problems,
                   editingDef, calls, targetItemId, summaries>>
    /\ UNCHANGED pipeVars

\* the updates of saveUserAnswer
AnswerUpdates ==
    [userAnswer |-> view.currentUserAnswer, solutionImages |-> NO_IMAGES]

\* ExercisesView.saveUserAnswer(), the Save button of the answer
ExercisesView_SaveUserAnswer ==
    /\ HasCurrentProblem
    /\ view.currentProblemId # NULL
    /\ UpdateItem(view.currentProblemId, AnswerUpdates, view)

\* faulty variant of ProblemMasteryUpdates: the mistake is forgotten
ProblemMasteryUpdates_ClearsWrong(level) ==
    [mastery |-> level, isWrong |-> FALSE]

\* the updates of updateMastery
ProblemMasteryUpdates(level) == [mastery |-> level]

\* ExercisesView.updateMastery(currentProblem.id, level), the onClick of a
\* star
ExercisesView_UpdateMastery(level) ==
    /\ HasCurrentProblem
    /\ UpdateItem(CurrentProblem.id, ProblemMasteryUpdates(level), view)

\* the completion panel is rendered
CompletionRendered ==
    /\ HasCurrentProblem
    /\ view.visibleStepIndex = Len(CurrentProblem.steps) - 1

\* ExercisesView: the button "I struggled with this"
ExercisesView_OpenStruggleForm ==
    /\ CompletionRendered
    /\ ~view.showStruggleForm
    /\ ~CurrentProblem.isWrong
    /\ view' = [view EXCEPT !.showStruggleForm = TRUE]
    /\ UNCHANGED <<now, activeSection, definitions, theorems, problems,
                   editingDef, calls, targetItemId, summaries>>
    /\ UNCHANGED pipeVars

\* ExercisesView: onChange of the textarea of the struggle form
ExercisesView_SetStruggleNote(v) ==
    /\ CompletionRendered
    /\ view.showStruggleForm
    /\ view.struggleNote # v
    /\ view' = [view EXCEPT !.struggleNote = v]
    /\ UNCHANGED <<now, activeSection, definitions, theorems, problems,
                   editingDef, calls, targetItemId, summaries>>
    /\ UNCHANGED pipeVars

\* ExercisesView: Cancel of the struggle form, resetStruggleForm
ExercisesView_ResetStruggleForm ==
    /\ CompletionRendered
    /\ view.showStruggleForm
    /\ view' = ResetStruggleForm(view)
    /\ UNCHANGED <<now, activeSection, definitions, theorems, problems,
                   editingDef, calls, targetItemId, summaries>>
    /\ UNCHANGED pipeVars

\* the updates of submitStruggle
StruggleUpdates ==
    [isWrong |-> TRUE, struggleNote |-> view.struggleNote,
     struggleImages |-> NO_IMAGES]

\* ExercisesView.submitStruggle(), the button Save & Review Later
ExercisesView_SubmitStruggle ==
    /\ CompletionRendered
    /\ view.showStruggleForm
    /\ view.currentProblemId # NULL
    /\ UpdateItem(view.currentProblemId, StruggleUpdates,
                  [view EXCEPT !.showStruggleForm = FALSE])

\* an AI call of ExercisesView settles
SettleExercise(k) ==
    \/ \E shape \in JsonShapes : ExercisesView_HandleGenerate_Then(k, shape)
    \/ ExercisesView_HandleGenerate_Catch(k)
    \/ \E shape \in JsonShapes : ExercisesView_HandleSolveUser_Then(k, shape)
    \/ ExercisesView_HandleSolveUser_Catch(k)

InitEx == PipeIdle /\ AppStart

NextEx ==
    \/ Tick
    \/ \E section \in ExerciseSections : Navigate(section)
    \/ Sidebar_Reselect
    \/ \E tab \in ReviewTabs : ReviewView_SetActiveTab(tab)
    \/ \E id \in RecordIds : ReviewView_RetakeProblem(id)
    \/ \E m \in Modes : ExercisesView_SetMode(m)
    \/ \E v \in ProblemTexts : ExercisesView_SetUserProblemText(v)
    \/ ExercisesView_HandleGenerate
    \/ ExercisesView_HandleSolveUser
    \/ ExercisesView_ShowNextStep
    \/ \E id \in RecordIds : ExercisesView_SelectHistory(id)
    \/ \E level \in MasteryChoices : ExercisesView_UpdateMastery(level)
    \/ \E v \in Answers : ExercisesView_SetCurrentUserAnswer(v)
    \/ ExercisesView_SaveUserAnswer
    \/ ExercisesView_OpenStruggleForm
    \/ \E v \in Notes : ExercisesView_SetStruggleNote(v)
    \/ ExercisesView_ResetStruggleForm
    \/ ExercisesView_SubmitStruggle
    \/ \E k \in 1..MaxRecords : SettleExercise(k)

SpecEx == InitEx /\ [][NextEx]_vars

\* the user clicks Show Step as long as the button is rendered, and every
\* AI call eventually resolves or rejects
SpecExFair ==
    /\ SpecEx
    /\ WF_vars(ExercisesView_ShowNextStep)
    /\ \A k \in 1..MaxRecords : WF_vars(SettleExercise(k))


-----------------------------------------------------------------------------
(* Properties of ExercisesView, checked under SpecEx and SpecExFair *)

\* every step of the problem with this id has been revealed with the Show
\* Step button
AllStepsShown(id) ==
    /\ HasCurrentProblem
    /\ view.currentProblemId = id
    /\ Len(CurrentProblem.steps) > 0
    /\ view.visibleStepIndex = Len(CurrentProblem.steps) - 1

\* a problem with this id is marked as solved
Solved(id) ==
    \E i \in 1..Len(problems) : problems[i].id = id /\ problems[i].isSolved

\* C25: once the user has revealed every step of the current problem with
\* the Show Step button, the problem is eventually marked as solved
C25_EventuallySolved ==
    \A id \in RecordIds : AllStepsShown(id) ~> Solved(id)

\* no problem is marked as solved: an invariant of SpecEx, as the Show Step
\* button is not rendered when showNextStep would take its second branch
NoProblemSolved == \A i \in 1..Len(problems) : ~problems[i].isSolved

\* the step adds the problem of call k, the call having succeeded
Succeeded(k) ==
    \E shape \in JsonShapes :
        \/ ExercisesView_HandleGenerate_Then(k, shape)
        \/ ExercisesView_HandleSolveUser_Then(k, shape)

\* C26: when handleGenerate or handleSolveUser succeeds in the mounted view,
\* the new problem is the current one, and the current problem of a mounted
\* view changes only when the user selects a problem of the history, starts
\* a generation, or a generation of the view succeeds
C26_NewProblemStaysCurrent ==
    [][(activeSection = EXERCISES /\ activeSection' = EXERCISES) =>
           /\ \A k \in 1..Len(calls) :
                  (calls[k].mounted /\ Succeeded(k)) =>
                      /\ problems'[1].id = NowString
                      /\ view'.currentProblemId = NowString
           /\ view'.currentProblemId # view.currentProblemId =>
                  \/ \E id \in RecordIds : ExercisesView_SelectHistory(id)
                  \/ ExercisesView_HandleGenerate
                  \/ ExercisesView_HandleSolveUser
                  \/ \E k \in 1..Len(calls) : calls[k].mounted /\ Succeeded(k)]_vars

\* C27: whenever a current problem is displayed, visibleStepIndex is
\* between -1 and the index of its last step
C27_StepIndexInRange ==
    HasCurrentProblem =>
        /\ -1 <= view.visibleStepIndex
        /\ view.visibleStepIndex <= Len(CurrentProblem.steps) - 1

\* C28: a problem is created with isWrong and isSolved false; isWrong
\* becomes true only by submitStruggle on the current problem; a problem
\* that is wrong stays wrong
C28_WrongStaysWrong ==
    [][/\ Len(problems') >= Len(problems)
       /\ \A j \in 1..(Len(problems') - Len(problems)) :
              ~problems'[j].isWrong /\ ~problems'[j].isSolved
       /\ \A i \in 1..Len(problems) :
              LET j == i + Len(problems') - Len(problems) IN
              /\ problems'[j].id = problems[i].id
              /\ problems[i].isWrong => problems'[j].isWrong
              /\ (~problems[i].isWrong /\ problems'[j].isWrong) =>
                     /\ ExercisesView_SubmitStruggle
                     /\ problems[i].id = view.currentProblemId]_vars

\* a problem was marked as wrong, a second problem was added after it and
\* the mastery of the wrong problem was set afterwards
C28_Witness ==
    /\ Len(problems) = 2
    /\ problems[2].isWrong
    /\ problems[2].mastery = 4
    /\ problems[2].createdAt < problems[1].createdAt
    /\ ~problems[1].isWrong

\* the ids of the records of a collection are pairwise distinct
DistinctIds(items) ==
    \A i, j \in 1..Len(items) : i # j => items[i].id # items[j].id

\* C29: in each collection the ids of the records are pairwise distinct
C29_DistinctIds ==
    /\ DistinctIds(definitions)
    /\ DistinctIds(theorems)
    /\ DistinctIds(problems)
    /\ DistinctIds(summaries)


-----------------------------------------------------------------------------
(* Navigation: the Sidebar and the deep links of ReviewView, together with *)
(* the handlers of DefinitionsView and TheoremsView                        *)

\* the sections of the Sidebar
Sections == {SEARCH, DEFINITIONS, THEOREMS, EXERCISES, CHAPTER_SUMMARY, REVIEW}

NextNav ==
    \/ NextApp
    \/ \E section \in Sections \ NavSections : Navigate(section)
    \/ Sidebar_Reselect
    \/ \E tab \in ReviewTabs : ReviewView_SetActiveTab(tab)
    \/ \E id \in RecordIds : ReviewView_OpenDefinition(id)
    \/ \E id \in RecordIds : ReviewView_OpenTheorem(id)

SpecNav == InitApp /\ [][NextNav]_vars

\* the step is a navigation by the Sidebar
SidebarStep ==
    \/ \E section \in Sections : Navigate(section)
    \/ Sidebar_Reselect

\* C22: a navigation by the Sidebar resets targetItemId to null, a deep link
\* sets targetItemId to its id and activeSection to its section, and no
\* other step changes either of them
C22_NavigationTarget ==
    [][/\ SidebarStep => targetItemId' = NULL
       /\ \A id \in RecordIds :
              /\ ReviewView_OpenDefinition(id) =>
                     targetItemId' = id /\ activeSection' = DEFINITIONS
              /\ ReviewView_OpenTheorem(id) =>
                     targetItemId' = id /\ activeSection' = THEOREMS
       /\ (targetItemId' # targetItemId \/ activeSection' # activeSection) =>
              \/ SidebarStep
              \/ \E id \in RecordIds : ReviewView_OpenDefinition(id)
              \/ \E id \in RecordIds : ReviewView_OpenTheorem(id)]_vars

\* a deep link has opened a theorem and the view shows it
C22_Witness ==
    /\ targetItemId # NULL
    /\ activeSection = THEOREMS
    /\ view.activeId = targetItemId
    /\ HasItem(theorems, targetItemId)

-----------------------------------------------------------------------------
(* Properties of ReviewView, checked under SpecUpdate *)

\* the record is an element of the list
Listed(list, item) == \E j \in 1..Len(list) : list[j] = item

\* C21: a definition or theorem is listed for review if and only if its
\* mastery is at most 3 or its uclImportance is High, and a problem is
\* listed under mistakes if and only if it is wrong
C21_ReviewMembership ==
    /\ \A i \in 1..Len(definitions) :
           Listed(WeakDefinitions, definitions[i]) <=>
               (definitions[i].mastery <= 3 \/ definitions[i].uclImportance = "High")
    /\ \A i \in 1..Len(theorems) :
           Listed(WeakTheorems, theorems[i]) <=>
               (theorems[i].mastery <= 3 \/ theorems[i].uclImportance = "High")
    /\ \A i \in 1..Len(problems) :
           Listed(WrongProblems, problems[i]) <=> problems[i].isWrong

\* of two definitions, one was raised to mastery 4 and is not listed, the
\* other was set to mastery 3 and is listed
C21_Witness ==
    /\ Len(definitions) = 2
    /\ definitions[1].mastery = 4
    /\ definitions[1].uclImportance # "High"
    /\ ~Listed(WeakDefinitions, definitions[1])
    /\ definitions[2].mastery = 3
    /\ Listed(WeakDefinitions, definitions[2])


-----------------------------------------------------------------------------
(* ChapterSummaryView (src/unnamed/part_003) and generateChapterSummary    *)
(* (src/services/geminiService.ts), with DefinitionsView adding the        *)
(* definitions that are summarised                                         *)

\* the sections of this part of the model
SummarySections == {DEFINITIONS, CHAPTER_SUMMARY}
\* the chapters the user selects in ChapterSummaryView
Chapters == {"Sequences", "Series"}
\* ai.models.generateContent resolves or rejects
Outcomes == {"resolved", "rejected"}

\* what generateChapterSummary returns as the summary of a chapter
SUMMARY_TEXT == "summary of the chapter"
ERROR_SUMMARY == "Error generating summary."

\* generateChapterSummary(subject, chapter, items): its catch returns a text
GenerateChapterSummary(outcome) ==
    IF outcome = "resolved" THEN SUMMARY_TEXT ELSE ERROR_SUMMARY

\* the record is of this subject and chapter
InChapter(x, subject, chapter) ==
    x.subjectId = subject /\ x.chapterId = chapter

\* hasContent of the render
HasContent ==
    \/ \E i \in 1..Len(definitions) :
           InChapter(definitions[i], view.subject, view.chapter)
    \/ \E i \in 1..Len(theorems) :
           InChapter(theorems[i], view.subject, view.chapter)

\* summaries.find(s => s.subjectId === subject && s.chapterId === chapter):
\* <<>> when there is none, else <<the summary>>
ExistingSummary(items, subject, chapter) ==
    IF \E i \in 1..Len(items) : InChapter(items[i], subject, chapter)
    THEN <<items[CHOOSE i \in 1..Len(items) :
                    /\ InChapter(items[i], subject, chapter)
                    /\ \A j \in 1..(i - 1) :
                           ~InChapter(items[j], subject, chapter)]>>
    ELSE <<>>

\* the record newItem of handleGenerate, built from the state form that the
\* handler closed over
NewSummary(form, newId, summaryText) ==
    [id |-> newId, createdAt |-> now, subjectId |-> form.subject,
     chapterId |-> form.chapter, aiSummary |-> summaryText,
     isLoading |-> FALSE]

\* the summaries that exist or are being generated are fewer than MaxItems
CanSummarize == Len(summaries) + Len(calls) < MaxItems

\* ChapterSummaryView: onChange of the chapter input
ChapterSummaryView_SetChapter(v) ==
    /\ activeSection = CHAPTER_SUMMARY
    /\ view.chapter # v
    /\ view' = [view EXCEPT !.chapter = v]
    /\ UNCHANGED <<now, activeSection, definitions, theorems, problems,
                   editingDef, calls, targetItemId, summaries>>
    /\ UNCHANGED pipeVars

\* ChapterSummaryView.handleGenerate up to the await
ChapterSummaryView_HandleGenerate ==
    /\ activeSection = CHAPTER_SUMMARY
    /\ ~view.isGenerating
    /\ HasContent
    /\ CanSummarize
    /\ view' = [view EXCEPT !.isGenerating = TRUE]
    /\ calls' = Append(calls, ExerciseCall("generateChapterSummary"))
    /\ UNCHANGED <<now, activeSection, definitions, theorems, problems,
                   editingDef, targetItemId, summaries>>
    /\ UNCHANGED pipeVars

\* ChapterSummaryView.handleGenerate after the await: generateChapterSummary
\* never rejects, so the catch of handleGenerate is not reached
ChapterSummaryView_HandleGenerate_Then(k, outcome) ==
    /\ k \in 1..Len(calls)
    /\ calls[k].kind = "generateChapterSummary"
    /\ summaries' = <<NewSummary(calls[k].form, NowString,
                                 GenerateChapterSummary(outcome))>> \o summaries
    /\ view' = IF calls[k].mounted THEN [view EXCEPT !.isGenerating = FALSE]
               ELSE view
    /\ calls' = Settled(k)
    /\ UNCHANGED <<now, activeSection, definitions, theorems, problems,
                   editingDef, targetItemId>>
    /\ UNCHANGED pipeVars

InitSum == PipeIdle /\ AppStart

NextSum ==
    \/ Tick
    \/ \E section \in SummarySections : Navigate(section)
    \/ \E v \in Terms : DefinitionsView_SetTerm(v)
    \/ \E v \in DefinitionTexts : DefinitionsView_SetContent(v)
    \/ DefinitionsView_HandleAdd
    \/ \E k \in 1..MaxRecords, shape \in JsonShapes, importance \in AiImportance :
           DefinitionsView_HandleAdd_Then(k, shape, importance)
    \/ \E k \in 1..MaxRecords : DefinitionsView_HandleAdd_Catch(k)
    \/ \E v \in Chapters : ChapterSummaryView_SetChapter(v)
    \/ ChapterSummaryView_HandleGenerate
    \/ \E k \in 1..MaxRecords, outcome \in Outcomes :
           ChapterSummaryView_HandleGenerate_Then(k, outcome)

SpecSum == InitSum /\ [][NextSum]_vars

\* the summary of the list is the one generated last for its subject and
\* chapter
MostRecent(items, x) ==
    \A i \in 1..Len(items) :
        InChapter(items[i], x.subjectId, x.chapterId) =>
            items[i].createdAt <= x.createdAt

\* C30: a failed call leaves summaries unchanged; a successful call stores
\* the summary under the subject and chapter selected when the generation
\* was requested; the summary displayed for a subject and chapter is the
\* one generated last
C30_SummariesKept ==
    [][\A k \in 1..Len(calls) :
           /\ ChapterSummaryView_HandleGenerate_Then(k, "rejected") =>
                  summaries' = summaries
           /\ ChapterSummaryView_HandleGenerate_Then(k, "resolved") =>
                  /\ Len(summaries') = Len(summaries) + 1
                  /\ InChapter(summaries'[1], calls[k].form.subject,
                               calls[k].form.chapter)
                  /\ summaries'[1].aiSummary = SUMMARY_TEXT
                  /\ ExistingSummary(summaries', calls[k].form.subject,
                                     calls[k].form.chapter) = <<summaries'[1]>>
                  /\ MostRecent(summaries', summaries'[1])]_vars

=============================================================================
